---------------------------- MODULE Spec2Model ----------------------------
(***************************************************************************)
(* SR Visualizer: the announcement-stream engine.                          *)
(*                                                                         *)
(* loadAndAnalyze (app.js) drives analyzeContainer (sr-visualizer.js),     *)
(* which steps the process-wide virtual screen reader over the preview     *)
(* container, and falls back to analyzeContainerSimple.  Every await of    *)
(* the code is one step of the model; what runs synchronously between two  *)
(* awaits is part of one action.  Strings are TLA+ strings and the string  *)
(* operations of the code (startsWith, trim, toLowerCase, includes) are    *)
(* computed character by character.                                        *)
(***************************************************************************)
EXTENDS Naturals, Sequences, FiniteSets, TLC

(***************************************************************************)
(* Bounds of the model.                                                    *)
(***************************************************************************)
\* number of loadAndAnalyze activation frames the model keeps
MaxInvocations == 2
\* number of content phrases the narrator stub may speak (beside the markers)
NumPhrases == 2
\* number of documents the user may load into the preview frame
NumDocs == 2

\* the longest document of the overlapping analyses, in narrator positions
MaxPositions == 1
\* number of announcements detectPotentialIssues may be given, and the longest
\* announcement sequence
NumAnnouncements == 10
MaxAnnouncements == 2
\* number of containers detectPotentialIssues may be given (beside null)
NumContainers == 9
\* roles, accessible names and heading levels of the phrases getElementCategory
\* may be given
NumRoles == 9
NumNames == 6
NumLevels == 2
\* number of results the rule engine may return
NumAxeOutputs == 3

(***************************************************************************)
(* Program constants.                                                      *)
(***************************************************************************)
maxIterations == 500

Invocations == 1..MaxInvocations

(***************************************************************************)
(* String helpers: JavaScript's String.prototype operations.               *)
(***************************************************************************)
startsWith(s, p) == Len(s) >= Len(p) /\ SubSeq(s, 1, Len(p)) = p

includes(s, p) == \E k \in 1..(Len(s) + 1) :
                     k + Len(p) - 1 <= Len(s) /\ SubSeq(s, k, k + Len(p) - 1) = p

\* the lower-case letter of each upper-case letter
LowerOf ==
  [A |-> "a", B |-> "b", C |-> "c", D |-> "d", E |-> "e", F |-> "f", G |-> "g",
     H |-> "h", I |-> "i", J |-> "j", K |-> "k", L |-> "l", M |-> "m", N |-> "n",
     O |-> "o", P |-> "p", Q |-> "q", R |-> "r", S |-> "s", T |-> "t", U |-> "u",
     V |-> "v", W |-> "w", X |-> "x", Y |-> "y", Z |-> "z"]

lowerChar(c) == IF c \in DOMAIN LowerOf THEN LowerOf[c] ELSE c

RECURSIVE toLowerCase(_)
toLowerCase(s) == IF s = "" THEN ""
                  ELSE lowerChar(SubSeq(s, 1, 1)) \o toLowerCase(Tail(s))

RECURSIVE trimStart(_)
trimStart(s) == IF s /= "" /\ SubSeq(s, 1, 1) = " " THEN trimStart(Tail(s)) ELSE s

RECURSIVE trimEnd(_)
trimEnd(s) == IF s /= "" /\ SubSeq(s, Len(s), Len(s)) = " "
              THEN trimEnd(SubSeq(s, 1, Len(s) - 1)) ELSE s

trim(s) == trimEnd(trimStart(s))

(***************************************************************************)
(* getElementCategory: the first category, in the order of the table, one  *)
(* of whose patterns the lower-cased phrase contains; content otherwise.   *)
(***************************************************************************)
CATEGORY_PATTERNS ==
  << [category |-> "landmark",
      patterns |-> <<"navigation", "banner", "main", "contentinfo", "region",
                     "complementary", "search", "article", "document">>],
     [category |-> "heading", patterns |-> <<"heading">>],
     [category |-> "interactive",
      patterns |-> <<"button", "link", "menu", "image", "img", "graphic">>],
     [category |-> "form",
      patterns |-> <<"textbox", "checkbox", "radio", "combobox", "listbox",
                     "spinbutton", "slider", "switch", "group", "form">>] >>

\* Faulty variant: the phrase is matched as spoken, capitals included.
getElementCategoryCaseSensitive(announcement) ==
  LET lower == announcement
      hit(k) == \E n \in 1..Len(CATEGORY_PATTERNS[k].patterns) :
                   includes(lower, CATEGORY_PATTERNS[k].patterns[n])
  IN  IF \E k \in 1..Len(CATEGORY_PATTERNS) : hit(k)
      THEN LET k == CHOOSE k \in 1..Len(CATEGORY_PATTERNS) :
                       hit(k) /\ \A j \in 1..(k - 1) : ~hit(j)
           IN  CATEGORY_PATTERNS[k].category
      ELSE "content"

getElementCategory(announcement) ==
  LET lower == toLowerCase(announcement)
      hit(k) == \E n \in 1..Len(CATEGORY_PATTERNS[k].patterns) :
                   includes(lower, CATEGORY_PATTERNS[k].patterns[n])
  IN  IF \E k \in 1..Len(CATEGORY_PATTERNS) : hit(k)
      THEN LET k == CHOOSE k \in 1..Len(CATEGORY_PATTERNS) :
                       hit(k) /\ \A j \in 1..(k - 1) : ~hit(j)
           IN  CATEGORY_PATTERNS[k].category
      ELSE "content"


(***************************************************************************)
(* The document tree held by the container.  A document is the sequence of *)
(* its elements in document order.  An attribute is an option: << >> when  *)
(* the element lacks it, <<v>> when it has it with value v.  id and        *)
(* placeholder are the DOM properties (the empty string when not set),     *)
(* text is textContent, closestLabel the textContent of the nearest        *)
(* enclosing label element, iconChild whether the element has an svg, i    *)
(* or img descendant.                                                      *)
(***************************************************************************)
None == << >>
Some(v) == <<v>>

Element(tag) == [tag |-> tag, role |-> None, href |-> None, type |-> None,
                 ariaLabel |-> None, alt |-> None, for |-> None, id |-> "",
                 placeholder |-> "", text |-> "", closestLabel |-> None,
                 ariaLabelledby |-> None, onclick |-> None, tabindex |-> None,
                 iconChild |-> FALSE]

\* a || b on a possibly-null string: null and "" are falsy
truthy(opt) == opt /= None /\ opt[1] /= ""
orElse(a, b) == IF truthy(a) THEN a ELSE b

\* element.matches(selector), for the selectors the program uses
matches(selector, el) ==
  CASE selector = "nav, [role=\"navigation\"]" ->
         el.tag = "nav" \/ el.role = Some("navigation")
    [] selector = "header, [role=\"banner\"]" ->
         el.tag = "header" \/ el.role = Some("banner")
    [] selector = "main, [role=\"main\"]" ->
         el.tag = "main" \/ el.role = Some("main")
    [] selector = "footer, [role=\"contentinfo\"]" ->
         el.tag = "footer" \/ el.role = Some("contentinfo")
    [] selector = "h1" -> el.tag = "h1"
    [] selector = "h2" -> el.tag = "h2"
    [] selector = "h3" -> el.tag = "h3"
    [] selector = "button, [role=\"button\"]" ->
         el.tag = "button" \/ el.role = Some("button")
    [] selector = "a[href]" -> el.tag = "a" /\ el.href /= None
    [] selector = "img" -> el.tag = "img"
    [] selector = "input[type=\"text\"], input:not([type]), textarea" ->
         \/ el.tag = "input" /\ el.type = Some("text")
         \/ el.tag = "input" /\ el.type = None
         \/ el.tag = "textarea"
    [] selector = "input[type=\"email\"]" ->
         el.tag = "input" /\ el.type = Some("email")
    [] selector = "input[type=\"checkbox\"]" ->
         el.tag = "input" /\ el.type = Some("checkbox")
    [] selector = "input[type=\"radio\"]" ->
         el.tag = "input" /\ el.type = Some("radio")
    [] selector = "img:not([alt])" -> el.tag = "img" /\ el.alt = None
    [] selector = "div[onclick], span[onclick]" ->
         el.tag \in {"div", "span"} /\ el.onclick /= None
    [] selector = "p, h1, h2, form" -> el.tag \in {"p", "h1", "h2", "form"}
    [] selector = "h1, h2, h3, h4, h5, h6" ->
         el.tag \in {"h1", "h2", "h3", "h4", "h5", "h6"}
    [] selector = "input, textarea, select" -> el.tag \in {"input", "textarea", "select"}
    [] OTHER -> FALSE

\* container.querySelectorAll(selector): positions of the matches, in document order
querySelectorAll(doc, selector) ==
  LET RECURSIVE from(_)
      from(n) == IF n > Len(doc) THEN << >>
                 ELSE IF matches(selector, doc[n]) THEN <<n>> \o from(n + 1)
                 ELSE from(n + 1)
  IN  from(1)

\* `label[for="${id}"]` is no selector when the id closes the quoted string:
\* querySelector then throws a SyntaxError
selectorRaises(id) == includes(id, "\"")

\* document.querySelector(`label[for="${id}"]`)?.textContent?.trim()
labelForText(doc, id) ==
  LET hits == {n \in 1..Len(doc) : doc[n].tag = "label" /\ doc[n].for = Some(id)}
  IN  IF hits = {} THEN None
      ELSE LET first == CHOOSE n \in hits : \A m \in hits : n <= m
           IN  Some(trim(doc[first].text))

\* el.closest('label')?.textContent?.trim()
closestLabelText(el) ==
  IF el.closestLabel = None THEN None ELSE Some(trim(el.closestLabel[1]))

(***************************************************************************)
(* analyzeContainerSimple: the selector table, in table order, and the     *)
(* label each entry builds.                                                *)
(***************************************************************************)
selectors ==
  << [selector |-> "nav, [role=\"navigation\"]", category |-> "landmark", label |-> "navigation"],
     [selector |-> "header, [role=\"banner\"]", category |-> "landmark", label |-> "banner"],
     [selector |-> "main, [role=\"main\"]", category |-> "landmark", label |-> "main"],
     [selector |-> "footer, [role=\"contentinfo\"]", category |-> "landmark", label |-> "contentinfo"],
     [selector |-> "h1", category |-> "heading", label |-> "labelFn"],
     [selector |-> "h2", category |-> "heading", label |-> "labelFn"],
     [selector |-> "h3", category |-> "heading", label |-> "labelFn"],
     [selector |-> "button, [role=\"button\"]", category |-> "interactive", label |-> "labelFn"],
     [selector |-> "a[href]", category |-> "interactive", label |-> "labelFn"],
     [selector |-> "img", category |-> "interactive", label |-> "labelFn"],
     [selector |-> "input[type=\"text\"], input:not([type]), textarea", category |-> "form", label |-> "labelFn"],
     [selector |-> "input[type=\"email\"]", category |-> "form", label |-> "labelFn"],
     [selector |-> "input[type=\"checkbox\"]", category |-> "form", label |-> "labelFn"],
     [selector |-> "input[type=\"radio\"]", category |-> "form", label |-> "labelFn"] >>

\* name ? `${role}, ${name}` : role
named(role, name) == IF truthy(name) THEN role \o ", " \o name[1] ELSE role

\* Faulty variant: a text field prefers its placeholder to its label element.
labelFnPlaceholderFirst(selector, el, doc) ==
  CASE selector = "h1" -> "heading, " \o trim(el.text) \o ", level 1"
    [] selector = "h2" -> "heading, " \o trim(el.text) \o ", level 2"
    [] selector = "h3" -> "heading, " \o trim(el.text) \o ", level 3"
    [] selector = "button, [role=\"button\"]" ->
         named("button", orElse(el.ariaLabel, Some(trim(el.text))))
    [] selector = "a[href]" ->
         named("link", orElse(el.ariaLabel, Some(trim(el.text))))
    [] selector = "img" -> named("image", el.alt)
    [] selector = "input[type=\"text\"], input:not([type]), textarea" ->
         named("textbox", orElse(el.ariaLabel,
                            orElse(Some(el.placeholder), labelForText(doc, el.id))))
    [] selector = "input[type=\"email\"]" ->
         named("textbox", orElse(el.ariaLabel, labelForText(doc, el.id)))
    [] selector = "input[type=\"checkbox\"]" ->
         named("checkbox", orElse(el.ariaLabel, closestLabelText(el)))
    [] selector = "input[type=\"radio\"]" ->
         named("radio button", orElse(el.ariaLabel, closestLabelText(el)))

labelFn(selector, el, doc) ==
  CASE selector = "h1" -> "heading, " \o trim(el.text) \o ", level 1"
    [] selector = "h2" -> "heading, " \o trim(el.text) \o ", level 2"
    [] selector = "h3" -> "heading, " \o trim(el.text) \o ", level 3"
    [] selector = "button, [role=\"button\"]" ->
         named("button", orElse(el.ariaLabel, Some(trim(el.text))))
    [] selector = "a[href]" ->
         named("link", orElse(el.ariaLabel, Some(trim(el.text))))
    [] selector = "img" -> named("image", el.alt)
    [] selector = "input[type=\"text\"], input:not([type]), textarea" ->
         named("textbox", orElse(el.ariaLabel,
                            orElse(labelForText(doc, el.id), Some(el.placeholder))))
    [] selector = "input[type=\"email\"]" ->
         named("textbox", orElse(el.ariaLabel, labelForText(doc, el.id)))
    [] selector = "input[type=\"checkbox\"]" ->
         named("checkbox", orElse(el.ariaLabel, closestLabelText(el)))
    [] selector = "input[type=\"radio\"]" ->
         named("radio button", orElse(el.ariaLabel, closestLabelText(el)))

\* the records of table entries k.., the next record taking index `index`;
\* `element` is the position of the node in the document (a back-reference)
RECURSIVE scanFrom(_, _, _)
scanFrom(doc, k, index) ==
  IF k > Len(selectors) THEN << >>
  ELSE LET entry == selectors[k]
           hits  == querySelectorAll(doc, entry.selector)
           recs  == [n \in 1..Len(hits) |->
                       [index        |-> index + n - 1,
                        announcement |-> IF entry.label = "labelFn"
                                         THEN labelFn(entry.selector, doc[hits[n]], doc)
                                         ELSE entry.label,
                        category     |-> entry.category,
                        element      |-> hits[n]]]
       IN  recs \o scanFrom(doc, k + 1, index + Len(hits))

\* Faulty variant: a record whose announcement an earlier record has is left out.
analyzeContainerSimpleUnique(container) ==
  LET all == scanFrom(container, 1, 0)
      RECURSIVE from(_)
      from(n) == IF n > Len(all) THEN << >>
                 ELSE IF \E m \in 1..(n - 1) : all[m].announcement = all[n].announcement
                 THEN from(n + 1)
                 ELSE <<all[n]>> \o from(n + 1)
  IN  from(1)

analyzeContainerSimple(container) == scanFrom(container, 1, 0)

\* the call raises when a label function does: the label lookup of a text or
\* e-mail field is made when the field has no (or an empty) aria-label
analyzeContainerSimpleRaises(container) ==
  \E n \in 1..Len(container) :
    /\ \/ matches("input[type=\"text\"], input:not([type]), textarea", container[n])
       \/ matches("input[type=\"email\"]", container[n])
    /\ ~truthy(container[n].ariaLabel)
    /\ selectorRaises(container[n].id)


(***************************************************************************)
(* issue-detector.js.  An issue is a record; the issues of the             *)
(* announcement pass carry the announcement, those of the container scan   *)
(* the position of the element (none for missing_main).  A property an     *)
(* issue lacks reads as undefined.                                         *)
(***************************************************************************)
announcementIssues ==
  [button   |-> [type |-> "unlabeled_button",
                 description |-> "Button has no accessible name - screen readers will just say \"button\""],
   link     |-> [type |-> "empty_link",
                 description |-> "Link has no accessible name - screen readers will just say \"link\""],
   image    |-> [type |-> "missing_alt",
                 description |-> "Image has no alt text - screen readers cannot describe it"],
   img      |-> [type |-> "missing_alt",
                 description |-> "Image has no alt text - screen readers cannot describe it"],
   textbox  |-> [type |-> "unlabeled_input",
                 description |-> "Form field has no label - users won't know what to enter"],
   edit     |-> [type |-> "unlabeled_input",
                 description |-> "Form field has no label - users won't know what to enter"],
   checkbox |-> [type |-> "unlabeled_checkbox",
                 description |-> "Checkbox has no label"]]

\* The table is an object literal: a key it does not own is looked up on
\* Object.prototype.  Of the properties found there, these have a lower-case
\* name; their values (the Object function, the prototype object) are truthy
\* and have no enumerable property of their own.
inheritedKeys == {"constructor", "__proto__"}

\* if (announcementIssues[lower])
\*     issues.push({ ...announcementIssues[lower], announcement, severity: 'error' })
announcementIssue(announcement) ==
  LET lower == trim(toLowerCase(announcement))
  IN  IF lower \in DOMAIN announcementIssues
      THEN << [type         |-> announcementIssues[lower].type,
               description  |-> announcementIssues[lower].description,
               announcement |-> announcement,
               severity     |-> "error"] >>
      ELSE IF lower \in inheritedKeys
      THEN << [announcement |-> announcement, severity |-> "error"] >>
      ELSE << >>

\* analysisResults.forEach(({ announcement }) => ...)
RECURSIVE announcementPass(_)
announcementPass(resultSeq) ==
  IF resultSeq = << >> THEN << >>
  ELSE announcementIssue(Head(resultSeq).announcement) \o announcementPass(Tail(resultSeq))

\* issues.some(i => i.type === t)
someOfType(issueSeq, t) ==
  \E n \in 1..Len(issueSeq) : "type" \in DOMAIN issueSeq[n] /\ issueSeq[n].type = t

\* the type property of a form control, as the DOM reports it
InputTypes ==
  {"hidden", "text", "search", "tel", "url", "email", "password", "date", "month",
   "week", "time", "datetime-local", "number", "range", "color", "checkbox",
   "radio", "file", "submit", "image", "reset", "button"}

inputType(el) ==
  IF el.tag = "textarea" THEN "textarea"
  ELSE IF el.tag = "select" THEN "select-one"
  ELSE IF el.type /= None /\ toLowerCase(el.type[1]) \in InputTypes
  THEN toLowerCase(el.type[1])
  ELSE "text"

\* parseInt(h.tagName[1]) and its rendering inside a template literal
levelOf(tag) == CHOOSE level \in 1..6 : SubSeq("123456", level, level) = SubSeq(tag, 2, 2)
levelString(level) == SubSeq("123456", level, level)

\* container.querySelectorAll(selector).forEach(el => { if (test(el)) issues.push(issue(el)) }):
\* `passing` holds the positions whose element passes the test, issueAt[n] is
\* the issue built for the element at position n
forEachPush(doc, selector, passing, issueAt) ==
  LET hits == querySelectorAll(doc, selector)
      RECURSIVE from(_)
      from(n) == IF n > Len(hits) THEN << >>
                 ELSE IF hits[n] \in passing THEN <<issueAt[hits[n]]>> \o from(n + 1)
                 ELSE from(n + 1)
  IN  from(1)

\* Images without alt: the first such image is reported unless the issues
\* collected so far, those of the announcement pass included, already hold a
\* missing_alt; every later image then finds the one just pushed.
RECURSIVE imagesWithoutAlt(_, _, _)
imagesWithoutAlt(hits, n, issueSeq) ==
  IF n > Len(hits) THEN issueSeq
  ELSE IF ~someOfType(issueSeq, "missing_alt")
  THEN imagesWithoutAlt(hits, n + 1,
         Append(issueSeq, [type |-> "missing_alt", element |-> hits[n], severity |-> "error",
                           description |-> "Image missing alt attribute"]))
  ELSE imagesWithoutAlt(hits, n + 1, issueSeq)

\* Icon buttons without accessible name
iconButtons(doc) ==
  LET hasName(n) == \/ trim(doc[n].text) /= ""
                    \/ doc[n].ariaLabel /= None
                    \/ doc[n].ariaLabelledby /= None
      test(n)  == ~hasName(n) /\ doc[n].iconChild
      issue(n) == [type |-> "unlabeled_icon_button", element |-> n, severity |-> "error",
                   description |-> "Icon button has no accessible name"]
  IN  forEachPush(doc, "button, [role=\"button\"]",
                  {n \in 1..Len(doc) : test(n)}, [n \in 1..Len(doc) |-> issue(n)])

\* Empty links
emptyLinks(doc) ==
  LET test(n)  == trim(doc[n].text) = "" /\ doc[n].ariaLabel = None
      issue(n) == [type |-> "empty_link", element |-> n, severity |-> "error",
                   description |-> "Link has no text content"]
  IN  forEachPush(doc, "a[href]",
                  {n \in 1..Len(doc) : test(n)}, [n \in 1..Len(doc) |-> issue(n)])

\* Fake buttons
fakeButtons(doc) ==
  LET test(n)  == doc[n].role = None /\ doc[n].tabindex = None
      issue(n) == [type |-> "fake_button", element |-> n, severity |-> "warning",
                   description |-> "Clickable element is not a button - not keyboard accessible"]
  IN  forEachPush(doc, "div[onclick], span[onclick]",
                  {n \in 1..Len(doc) : test(n)}, [n \in 1..Len(doc) |-> issue(n)])

\* Missing main landmark
missingMain(doc) ==
  IF /\ querySelectorAll(doc, "main, [role=\"main\"]") = << >>
     /\ Len(querySelectorAll(doc, "p, h1, h2, form")) > 2
  THEN << [type |-> "missing_main", severity |-> "warning",
           description |-> "No main landmark - screen reader users cannot skip to main content"] >>
  ELSE << >>

\* Faulty variant: a heading one level deeper than its predecessor is flagged too.
RECURSIVE headingSkipsFromOneDeeper(_, _, _, _)
headingSkipsFromOneDeeper(doc, hits, n, lastLevel) ==
  IF n > Len(hits) THEN << >>
  ELSE LET level == levelOf(doc[hits[n]].tag)
       IN  (IF level > lastLevel /\ lastLevel > 0
            THEN << [type |-> "heading_skip", element |-> hits[n], severity |-> "warning",
                     description |-> "Heading level skipped from h" \o levelString(lastLevel)
                                       \o " to h" \o levelString(level)] >>
            ELSE << >>)
           \o headingSkipsFromOneDeeper(doc, hits, n + 1, level)

\* Heading hierarchy
RECURSIVE headingSkips(_, _, _, _)
headingSkips(doc, hits, n, lastLevel) ==
  IF n > Len(hits) THEN << >>
  ELSE LET level == levelOf(doc[hits[n]].tag)
       IN  (IF level > lastLevel + 1 /\ lastLevel > 0
            THEN << [type |-> "heading_skip", element |-> hits[n], severity |-> "warning",
                     description |-> "Heading level skipped from h" \o levelString(lastLevel)
                                       \o " to h" \o levelString(level)] >>
            ELSE << >>)
           \o headingSkips(doc, hits, n + 1, level)

\* Unlabeled form inputs
unlabeledInputs(doc) ==
  LET hasLabel(n) ==
        \/ doc[n].id /= "" /\ \E m \in 1..Len(doc) :
                                doc[m].tag = "label" /\ doc[m].for = Some(doc[n].id)
        \/ doc[n].ariaLabel /= None
        \/ doc[n].ariaLabelledby /= None
        \/ doc[n].closestLabel /= None
      test(n)  == inputType(doc[n]) \notin {"hidden", "submit", "button"} /\ ~hasLabel(n)
      issue(n) == [type |-> "unlabeled_input", element |-> n, severity |-> "error",
                   description |-> "Form " \o inputType(doc[n]) \o " has no associated label"]
  IN  forEachPush(doc, "input, textarea, select",
                  {n \in 1..Len(doc) : test(n)}, [n \in 1..Len(doc) |-> issue(n)])

\* the scan raises when the label lookup of a form control does: the lookup
\* is made for a control that is not skipped and has an id
scanContainerRaises(container) ==
  \E n \in 1..Len(container) :
    /\ matches("input, textarea, select", container[n])
    /\ inputType(container[n]) \notin {"hidden", "submit", "button"}
    /\ container[n].id /= ""
    /\ selectorRaises(container[n].id)

\* scanContainerForIssues(container, issues): the issues array after the scan
scanContainerForIssues(container, issueSeq) ==
  imagesWithoutAlt(querySelectorAll(container, "img:not([alt])"), 1, issueSeq)
    \o iconButtons(container)
    \o emptyLinks(container)
    \o fakeButtons(container)
    \o missingMain(container)
    \o headingSkips(container, querySelectorAll(container, "h1, h2, h3, h4, h5, h6"), 1, 0)
    \o unlabeledInputs(container)

\* `${issue.type}-${issue.description}`
undefinedOr(issue, field) == IF field \in DOMAIN issue THEN issue[field] ELSE "undefined"

\* Faulty variant: the announcement is part of the key.
issueKeyWithAnnouncement(issue) ==
  undefinedOr(issue, "type") \o "-" \o undefinedOr(issue, "description")
    \o "-" \o undefinedOr(issue, "announcement")

\* Faulty variant: the key is the type alone.
issueKeyTypeOnly(issue) == undefinedOr(issue, "type")

issueKey(issue) == undefinedOr(issue, "type") \o "-" \o undefinedOr(issue, "description")

\* issues.filter(issue => { if (seen.has(key)) return false; seen.add(key); return true })
RECURSIVE filterFirst(_, _)
filterFirst(issueSeq, seenKeys) ==
  IF issueSeq = << >> THEN << >>
  ELSE LET issue == Head(issueSeq)
           key   == issueKey(issue)
       IN  IF key \in seenKeys
           THEN filterFirst(Tail(issueSeq), seenKeys)
           ELSE <<issue>> \o filterFirst(Tail(issueSeq), seenKeys \cup {key})

\* the local issues array before the filter, and the returned list
collectIssues(resultSeq, containerOpt) ==
  IF containerOpt /= None
  THEN scanContainerForIssues(containerOpt[1], announcementPass(resultSeq))
  ELSE announcementPass(resultSeq)

(***************************************************************************)
(* Inputs: the phrases the narrator may speak and the documents the user   *)
(* may load.                                                               *)
(***************************************************************************)
MarkerPhrases == {"", "document", "end of document", "end of main"}

ContentTable == <<"button", "end of", "heading, Welcome, level 1",
                  "navigation, Main Menu", "some paragraph text">>

ContentPhrases == {ContentTable[n] : n \in 1..NumPhrases}

Phrases == MarkerPhrases \cup ContentPhrases

DocTable ==
  << \* a snippet no selector of the table matches
     << Element("p") >>,
     \* two unnamed buttons inside a navigation landmark
     << [Element("div") EXCEPT !.role = Some("navigation")],
        Element("button"), Element("button") >>,
     \* the empty container
     << >>,
     \* a heading and a labelled text field
     << [Element("h1") EXCEPT !.text = " Welcome "],
        [Element("label") EXCEPT !.for = Some("q"), !.text = "Search"],
        [Element("input") EXCEPT !.id = "q", !.placeholder = "type here"] >>,
     << [Element("img") EXCEPT !.alt = Some("cat")] >> >>

Documents == {DocTable[n] : n \in 1..NumDocs}

(***************************************************************************)
(* Inputs of detectPotentialIssues: the announcement records and the       *)
(* container it may be given.                                              *)
(***************************************************************************)
AnnouncementTable ==
  <<"button", "Image ", "link", "img", "textbox", "edit", "checkbox",
    "button, submit", "constructor", " Button", "some paragraph text", "__proto__">>

Announcements == {AnnouncementTable[n] : n \in 1..NumAnnouncements}

\* the records analyzeContainer builds for a sequence of announcements
recordsOf(announcementSeq) ==
  [n \in 1..Len(announcementSeq) |->
     [index |-> n - 1, announcement |-> announcementSeq[n],
      category |-> getElementCategory(announcementSeq[n])]]

AnnouncementRecords ==
  {recordsOf(a) : a \in UNION {[1..n -> Announcements] : n \in 0..MaxAnnouncements}}

(***************************************************************************)
(* Inputs of getElementCategory: the phrases spoken for an element, a role *)
(* followed by the accessible name, a heading with its level, or plain     *)
(* text.                                                                   *)
(***************************************************************************)
RoleTable ==
  <<"navigation", "heading", "", "button", "textbox", "banner", "link", "main",
    "checkbox", "region">>

NameTable ==
  <<"Welcome", "Main Menu", "some paragraph text", "Search results", "Close",
    "News", "Submit form">>

spoken(role, name, level) ==
  IF role = "" THEN name
  ELSE IF role = "heading" THEN "heading, " \o name \o ", level " \o levelString(level)
  ELSE role \o ", " \o name

SpokenPhrases ==
  {spoken(RoleTable[r], NameTable[n], level) :
     r \in 1..NumRoles, n \in 1..NumNames, level \in 1..NumLevels}

ContainerTable ==
  << \* three images, the last two without alt
     << [Element("img") EXCEPT !.alt = Some("cat")], Element("img"), Element("img") >>,
     \* two empty links, a clickable div and a named link
     << [Element("a") EXCEPT !.href = Some("/a")],
        [Element("a") EXCEPT !.href = Some("/b"), !.text = "  "],
        [Element("div") EXCEPT !.onclick = Some("go()")],
        [Element("a") EXCEPT !.href = Some("/c"), !.text = "Home"] >>,
     \* headings that skip levels, and enough content to want a main landmark
     << [Element("h1") EXCEPT !.text = "Title"], [Element("h3") EXCEPT !.text = "Sub"],
        Element("p"), [Element("h2") EXCEPT !.text = "Part"],
        [Element("h4") EXCEPT !.text = "Deep"], [Element("h4") EXCEPT !.text = "Deep"],
        [Element("h5") EXCEPT !.text = "Deeper"] >>,
     \* a clean document
     << Element("main"), [Element("h1") EXCEPT !.text = "Title"],
        [Element("img") EXCEPT !.alt = Some("cat")], Element("p") >>,
     \* form controls with and without labels
     << Element("main"), Element("input"),
        [Element("input") EXCEPT !.type = Some("hidden")],
        [Element("label") EXCEPT !.for = Some("q"), !.text = " Search "],
        [Element("input") EXCEPT !.id = "q", !.type = Some("email")],
        [Element("textarea") EXCEPT !.placeholder = "Notes"],
        [Element("input") EXCEPT !.id = "q", !.ariaLabel = Some("Find"),
                                 !.placeholder = "type here"],
        [Element("input") EXCEPT !.id = "q", !.type = Some("text"),
                                 !.placeholder = "type here"],
        [Element("input") EXCEPT !.id = "z", !.ariaLabel = Some("")] >>,
     \* an icon button, a named icon button and an image without alt
     << [Element("button") EXCEPT !.iconChild = TRUE],
        [Element("button") EXCEPT !.iconChild = TRUE, !.ariaLabel = Some("Close")],
        Element("img"), Element("button") >>,
     \* a paragraph and two deep headings, none of them matched by the table
     \* of the direct scan
     << Element("p"), [Element("h4") EXCEPT !.text = "Note"],
        [Element("h5") EXCEPT !.text = "Detail"] >>,
     \* a decorative image inside a main landmark
     << Element("main"), [Element("img") EXCEPT !.alt = Some("")] >>,
     \* a text field whose id holds a double quote
     << Element("main"), [Element("input") EXCEPT !.id = "a\"b"] >>,
     << Element("p"), Element("form"), [Element("h2") EXCEPT !.text = "News"],
        Element("select"), [Element("span") EXCEPT !.onclick = Some("go()"),
                                                  !.tabindex = Some("0")] >> >>

Containers == {None} \cup {Some(ContainerTable[n]) : n \in 1..NumContainers}

(***************************************************************************)
(* axe-analyzer.js and the rule engine.  A result of the engine holds the  *)
(* lists violations and incomplete and the list passes (here its length);  *)
(* a property the result lacks is None.  Of an entry the properties id,    *)
(* impact, description, help and helpUrl are kept, each None when the      *)
(* entry lacks it; its tags and nodes are always there and are left out.   *)
(* An error is its name and message.                                       *)
(***************************************************************************)
Violation(id, impact) ==
  [id |-> Some(id), impact |-> impact, description |-> Some("Ensures " \o id),
   help |-> Some("Fix " \o id), helpUrl |-> Some("https://dequeuniversity.com/rules/axe/4.8/" \o id)]

AxeOutputTable ==
  << \* two well-formed violations around one without impact
     [violations |-> Some(<< Violation("image-alt", Some("critical")),
                             Violation("region", None),
                             Violation("label", Some("serious")) >>),
      incomplete |-> Some(<< Violation("color-contrast", Some("serious")) >>),
      passes     |-> Some(2)],
     \* no violations list
     [violations |-> None, incomplete |-> Some(<< >>), passes |-> Some(1)],
     \* no incomplete list
     [violations |-> Some(<< Violation("image-alt", Some("critical")) >>),
      incomplete |-> None, passes |-> Some(0)],
     \* nothing found
     [violations |-> Some(<< >>), incomplete |-> Some(<< >>), passes |-> Some(3)] >>

AxeOutputs == {AxeOutputTable[n] : n \in 1..NumAxeOutputs}

\* what the dynamic import and axe.run may throw
ImportErrors == {[name |-> "TypeError", message |-> "Failed to fetch dynamically imported module"]}
RunErrors == {[name |-> "Error", message |-> "Axe is already running"]}

\* reading .length of a list the result lacks (the message is the browser's)
TypeErrors ==
  {[name |-> "TypeError", message |-> "Cannot read properties of undefined (reading 'length')"]}

\* Faulty variant: the import's error is thrown on.
loadAxeRejectionSame(e) == e

\* loadAxe: catch (error) { throw new Error('Could not load axe-core library') }
loadAxeRejection(e) == [name |-> "Error", message |-> "Could not load axe-core library"]

\* formatViolation(violation): the properties are copied
formatViolation(violation) ==
  [id |-> violation.id, impact |-> violation.impact, description |-> violation.description,
   help |-> violation.help, helpUrl |-> violation.helpUrl]

\* list.map(formatViolation)
mapFormatViolation(list) == [n \in 1..Len(list) |-> formatViolation(list[n])]

\* runAxeAnalysis's try block reads results.violations.length,
\* results.incomplete.length and results.passes.length
readsMissingList(output) ==
  output.violations = None \/ output.incomplete = None \/ output.passes = None

\* the object runAxeAnalysis returns (its timestamp left out)
formatResults(output) ==
  [violations |-> mapFormatViolation(output.violations[1]),
   incomplete |-> mapFormatViolation(output.incomplete[1]),
   passes     |-> output.passes[1]]

\* list.filter(valid), for the entries of a list
RECURSIVE filterValid(_, _)
filterValid(list, required) ==
  IF list = << >> THEN << >>
  ELSE (IF \A field \in required : truthy(Head(list)[field]) THEN <<Head(list)>> ELSE << >>)
         \o filterValid(Tail(list), required)

\* utils.js validateAxeResults(results): a missing list becomes the empty
\* list, an entry lacking a required property is filtered out
validateAxeResults(output) ==
  [violations |-> Some(filterValid(IF output.violations = None THEN << >> ELSE output.violations[1],
                                   {"id", "impact", "description", "help", "helpUrl"})),
   incomplete |-> Some(filterValid(IF output.incomplete = None THEN << >> ELSE output.incomplete[1],
                                   {"id", "description", "help"})),
   passes     |-> IF output.passes = None THEN Some(0) ELSE output.passes]

\* renderAxeResults(results): what the issues panel shows
renderAxeResults(formatted) ==
  IF Len(formatted.violations) = 0 /\ Len(formatted.incomplete) = 0
  THEN "No WCAG violations detected!"
  ELSE "issues-table"

\* what the rule-engine step of an analysis met: the result the engine
\* returned, the error the import or the run threw, the error runAxeAnalysis
\* rejected with
NoOutcome == [returned |-> None, thrown |-> None, rejected |-> None]

(***************************************************************************)
(* State.                                                                  *)
(***************************************************************************)
VARIABLES
  \* sr-visualizer.js: the cached narrator module (FALSE: not loaded yet)
  virtual,
  \* app.js module state
  analysisResults, currentIndex, axeResults, previewFrame, enhanceAiBtnDisabled,
  issuesContent,  \* what the issues panel shows
  \* axe-analyzer.js: the cached rule engine (FALSE: not loaded yet)
  axe,
  axeOutcome,     \* what the rule-engine step of the current analysis met
  \* one activation of loadAndAnalyze / analyzeContainer per invocation:
  pc,             \* the await the invocation is suspended at
  results,        \* analyzeContainer's results array
  seen,           \* analyzeContainer's seen set
  safetyCounter,  \* analyzeContainer's loop counter
  phrase,         \* the phrase the last lastSpokenPhrase call returned, if any
  calls,          \* the calls made on the narrator so far: how many of each, and the last one
  callbacks,      \* the (result, count) pairs handed to onProgress so far
  threw,          \* the operations that threw during the invocation
  exit,           \* how the traversal loop was left
  \* issue-detector.js: one activation of detectPotentialIssues
  dpiPc,          \* "idle", "scan", "scanned" or "scanRaised", "called", "returned" or "raised"
  dpiSource,      \* where its announcements come from: "given" or "scan"
  dpiFirst,       \* the arguments and the result of the previous call, if any
  dpiArgs,        \* its arguments (analysisResults, container)
  issues,         \* its issues array, as it is when the filter starts
  dpiReturn,      \* the list it returned
  \* sr-visualizer.js: one classification of a phrase into a record
  gecPc,          \* "idle", "called" or "returned"
  gecArg,         \* the phrase
  gecResult,      \* the record built for it, if any
  \* app.js: what the page shows and what loadAndAnalyze has done
  announcementList, \* the items of the announcement list
  highlight,      \* the highlight overlay the preview frame holds, if any
  simpleRuns,     \* how often the invocation has called analyzeContainerSimple
  \* app.js: speech
  ttsMode,        \* "single" or "continuous"
  ttsPlaying,     \* continuous narration is on
  utterance,      \* the utterance being spoken, if any: the index of its record, and
                  \* whether speakCurrentAndContinue made it
  cancelled,      \* how many cancelled utterances of speakCurrentAndContinue have
                  \* their end or error event still to come
  timer           \* how many 300 ms timers of moveToNextAndSpeak are pending

appVars  == <<analysisResults, currentIndex, axeResults, previewFrame, enhanceAiBtnDisabled>>
loopVars0 == <<results, seen, safetyCounter, phrase, callbacks>>
loopVars == <<loopVars0, exit>>
detectorVars == <<dpiPc, dpiSource, dpiFirst, dpiArgs, issues, dpiReturn>>
classifierVars == <<gecPc, gecArg, gecResult>>
axeVars == <<issuesContent, axe, axeOutcome>>
uiVars == <<announcementList, highlight, simpleRuns>>
ttsVars == <<ttsMode, ttsPlaying, utterance, cancelled, timer>>
vars == <<virtual, appVars, pc, loopVars, calls, threw, detectorVars, classifierVars, axeVars, uiVars, ttsVars>>

NoCalls == [start |-> 0, lastSpokenPhrase |-> 0, next |-> 0, stop |-> 0, last |-> "none"]

\* the narrator call `op` is made by invocation i
called(i, op) == [calls EXCEPT ![i] = [@ EXCEPT ![op] = @ + 1, !.last = op]]

\* the items of the announcement list: a record's item carries the index it
\* is bound to, the other items are messages
PlaceholderItem == [kind |-> "placeholder", index |-> 0]
LoadingItem == [kind |-> "loading", index |-> 0]
ErrorItem == [kind |-> "error", index |-> 0]
RecordItem(index) == [kind |-> "record", index |-> index]

appIdle ==
  /\ virtual = FALSE
  /\ analysisResults = << >>
  /\ currentIndex = 0
  /\ axeResults = None
  /\ issuesContent = ""
  /\ axe = FALSE
  /\ axeOutcome = NoOutcome
  /\ previewFrame = << >>
  /\ enhanceAiBtnDisabled = FALSE
  /\ pc = [i \in Invocations |-> "idle"]
  /\ results = [i \in Invocations |-> << >>]
  /\ seen = [i \in Invocations |-> {}]
  /\ safetyCounter = [i \in Invocations |-> 0]
  /\ phrase = [i \in Invocations |-> None]
  /\ calls = [i \in Invocations |-> NoCalls]
  /\ callbacks = [i \in Invocations |-> << >>]
  /\ threw = [i \in Invocations |-> {}]
  /\ exit = [i \in Invocations |-> "none"]
  /\ announcementList = <<PlaceholderItem>>
  /\ highlight = None
  /\ simpleRuns = [i \in Invocations |-> 0]
  /\ ttsMode = "single"
  /\ ttsPlaying = FALSE
  /\ utterance = None
  /\ cancelled = 0
  /\ timer = 0

detectorIdle ==
  /\ dpiPc = "idle"
  /\ dpiSource = "given"
  /\ dpiFirst = None
  /\ dpiArgs = [analysisResults |-> << >>, container |-> None]
  /\ issues = << >>
  /\ dpiReturn = << >>

classifierIdle ==
  /\ gecPc = "idle"
  /\ gecArg = ""
  /\ gecResult = None

Init ==
  /\ appIdle
  /\ detectorIdle
  /\ classifierIdle


(***************************************************************************)
(* analyzeContainer's decisions, one operator per condition of the code.   *)
(***************************************************************************)
\* Faulty variant: an off-by-one loop test, safetyCounter <= maxIterations.
loopContinuesInclusive(counter) == counter <= maxIterations

\* while (safetyCounter < maxIterations)
loopContinues(counter) == counter < maxIterations

\* Faulty variant: the sentinel misspelt, so that no spoken phrase equals it.
isEndOfDocumentMisspelt(p) == p = "End of document"

\* if (phrase === 'end of document') break
isEndOfDocument(p) == p = "end of document"

\* Faulty variant: the seen set is not consulted.
isNewContentIgnoringSeen(p, seenSet) ==
  /\ p /= ""
  /\ p /= "document"
  /\ ~startsWith(p, "end of ")

\* Faulty variant: the bare 'document' marker is not filtered.
isNewContentKeepingDocument(p, seenSet) ==
  /\ p /= ""
  /\ p \notin seenSet
  /\ ~startsWith(p, "end of ")

\* phrase && !seen.has(phrase) && phrase !== 'document' && !phrase.startsWith('end of ')
isNewContent(p, seenSet) ==
  /\ p /= ""
  /\ p \notin seenSet
  /\ p /= "document"
  /\ ~startsWith(p, "end of ")

\* Faulty variant: the index is taken after the push, so it is one-based.
newResultOneBased(resultSeq, p) ==
  [index |-> Len(resultSeq) + 1, announcement |-> p, category |-> getElementCategory(p)]

\* the record pushed for a new phrase
newResult(resultSeq, p) ==
  [index |-> Len(resultSeq), announcement |-> p, category |-> getElementCategory(p)]

\* Faulty variant: the emptiness test compares against null, never true of an array.
needsFallbackNullTest(resultSeq) == FALSE

\* loadAndAnalyze: if (analysisResults.length === 0)
needsFallback(resultSeq) == Len(resultSeq) = 0

(***************************************************************************)
(* loadAndAnalyze(html), up to its first await: the previous state is      *)
(* cleared, the document is loaded into the preview frame and              *)
(* analyzeContainer is entered.  The invocation takes the first free       *)
(* activation frame.  Neither the function nor the click handlers that     *)
(* call it test whether an earlier invocation is still in flight.          *)
(***************************************************************************)
freeFrame(i) == pc[i] = "idle" /\ \A j \in Invocations : pc[j] = "idle" => i <= j

loadAndAnalyze(i, html) ==
  /\ freeFrame(i)
  /\ analysisResults' = << >>
  /\ currentIndex' = 0
  /\ axeResults' = None
  /\ enhanceAiBtnDisabled' = TRUE
  /\ previewFrame' = html
  /\ issuesContent' = "Running accessibility checks..."
  /\ axeOutcome' = NoOutcome
  /\ pc' = [pc EXCEPT ![i] = "init"]
  /\ announcementList' = <<LoadingItem>>
  /\ highlight' = None
  /\ simpleRuns' = [simpleRuns EXCEPT ![i] = 0]
  /\ UNCHANGED <<virtual, loopVars, calls, threw, axe>>
  /\ UNCHANGED <<detectorVars, classifierVars, ttsVars>>

(***************************************************************************)
(* const vsr = await initVirtualScreenReader(): the cached module, or the  *)
(* dynamic import, which may fail; the failure is re-thrown and, being     *)
(* outside analyzeContainer's try, leaves analyzeContainer.                *)
(***************************************************************************)
\* Faulty variant: the cached module is not consulted, every call imports.
initVirtualScreenReaderAlwaysImporting(i) ==
  /\ pc[i] = "init"
  /\ \/ /\ virtual' = TRUE
        /\ pc' = [pc EXCEPT ![i] = "start"]
        /\ UNCHANGED threw
     \/ /\ threw' = [threw EXCEPT ![i] = @ \cup {"initVirtualScreenReader"}]
        /\ pc' = [pc EXCEPT ![i] = "raised"]
        /\ UNCHANGED virtual
  /\ UNCHANGED <<appVars, loopVars, calls>>
  /\ UNCHANGED <<detectorVars, classifierVars, axeVars, uiVars, ttsVars>>

initVirtualScreenReader(i) ==
  /\ pc[i] = "init"
  /\ \/ /\ virtual
        /\ pc' = [pc EXCEPT ![i] = "start"]
        /\ UNCHANGED <<virtual, threw>>
     \/ /\ ~virtual
        /\ virtual' = TRUE
        /\ pc' = [pc EXCEPT ![i] = "start"]
        /\ UNCHANGED threw
     \/ /\ ~virtual
        /\ threw' = [threw EXCEPT ![i] = @ \cup {"initVirtualScreenReader"}]
        /\ pc' = [pc EXCEPT ![i] = "raised"]
        /\ UNCHANGED virtual
  /\ UNCHANGED <<appVars, loopVars, calls>>
  /\ UNCHANGED <<detectorVars, classifierVars, axeVars, uiVars, ttsVars>>

(***************************************************************************)
(* await vsr.start({ container }); on success the loop is entered.         *)
(***************************************************************************)
start(i) ==
  /\ pc[i] = "start"
  /\ calls' = called(i, "start")
  /\ \/ /\ IF loopContinues(safetyCounter[i])
           THEN pc' = [pc EXCEPT ![i] = "read"] /\ UNCHANGED exit
           ELSE pc' = [pc EXCEPT ![i] = "stop"] /\ exit' = [exit EXCEPT ![i] = "ceiling"]
        /\ UNCHANGED threw
     \/ /\ threw' = [threw EXCEPT ![i] = @ \cup {"start"}]
        /\ exit' = [exit EXCEPT ![i] = "error"]
        /\ pc' = [pc EXCEPT ![i] = "stop"]
  /\ UNCHANGED <<virtual, appVars, results, seen, safetyCounter, phrase, callbacks>>
  /\ UNCHANGED <<detectorVars, classifierVars, axeVars, uiVars, ttsVars>>

(***************************************************************************)
(* const phrase = await vsr.lastSpokenPhrase(), and everything up to the   *)
(* next await: the sentinel test, the insertion of a new phrase and the    *)
(* synchronous progress callback, which may throw.                         *)
(***************************************************************************)
\* Faulty variant: the callback is handed the count taken before the push.
onPhraseCountBeforePush(i, p, callbackThrows) ==
  /\ phrase' = [phrase EXCEPT ![i] = Some(p)]
  /\ IF isEndOfDocument(p)
     THEN /\ pc' = [pc EXCEPT ![i] = "stop"]
          /\ exit' = [exit EXCEPT ![i] = "sentinel"]
          /\ UNCHANGED <<results, seen, callbacks, threw>>
     ELSE IF isNewContent(p, seen[i])
     THEN LET result == newResult(results[i], p)
              pushed == Append(results[i], result)
          IN  /\ seen' = [seen EXCEPT ![i] = @ \cup {p}]
              /\ results' = [results EXCEPT ![i] = pushed]
              /\ callbacks' = [callbacks EXCEPT ![i] =
                                 Append(@, [result |-> result, count |-> Len(results[i])])]
              /\ IF callbackThrows
                 THEN /\ threw' = [threw EXCEPT ![i] = @ \cup {"onProgress"}]
                      /\ exit' = [exit EXCEPT ![i] = "error"]
                      /\ pc' = [pc EXCEPT ![i] = "stop"]
                 ELSE /\ pc' = [pc EXCEPT ![i] = "next"]
                      /\ UNCHANGED <<threw, exit>>
     ELSE /\ pc' = [pc EXCEPT ![i] = "next"]
          /\ UNCHANGED <<results, seen, callbacks, threw, exit>>

\* Faulty variant: a recorded phrase is not added to the seen set.
onPhraseNotMarkingSeen(i, p, callbackThrows) ==
  /\ phrase' = [phrase EXCEPT ![i] = Some(p)]
  /\ IF isEndOfDocument(p)
     THEN /\ pc' = [pc EXCEPT ![i] = "stop"]
          /\ exit' = [exit EXCEPT ![i] = "sentinel"]
          /\ UNCHANGED <<results, seen, callbacks, threw>>
     ELSE IF isNewContent(p, seen[i])
     THEN LET result == newResult(results[i], p)
              pushed == Append(results[i], result)
          IN  /\ UNCHANGED seen
              /\ results' = [results EXCEPT ![i] = pushed]
              /\ callbacks' = [callbacks EXCEPT ![i] =
                                 Append(@, [result |-> result, count |-> Len(pushed)])]
              /\ IF callbackThrows
                 THEN /\ threw' = [threw EXCEPT ![i] = @ \cup {"onProgress"}]
                      /\ exit' = [exit EXCEPT ![i] = "error"]
                      /\ pc' = [pc EXCEPT ![i] = "stop"]
                 ELSE /\ pc' = [pc EXCEPT ![i] = "next"]
                      /\ UNCHANGED <<threw, exit>>
     ELSE /\ pc' = [pc EXCEPT ![i] = "next"]
          /\ UNCHANGED <<results, seen, callbacks, threw, exit>>

\* Faulty variant: a skipped phrase `continue`s the loop without advancing the narrator.
onPhraseContinue(i, p, callbackThrows) ==
  /\ phrase' = [phrase EXCEPT ![i] = Some(p)]
  /\ IF isEndOfDocument(p)
     THEN /\ pc' = [pc EXCEPT ![i] = "stop"]
          /\ exit' = [exit EXCEPT ![i] = "sentinel"]
          /\ UNCHANGED <<results, seen, callbacks, threw>>
     ELSE IF isNewContent(p, seen[i])
     THEN LET result == newResult(results[i], p)
              pushed == Append(results[i], result)
          IN  /\ seen' = [seen EXCEPT ![i] = @ \cup {p}]
              /\ results' = [results EXCEPT ![i] = pushed]
              /\ callbacks' = [callbacks EXCEPT ![i] =
                                 Append(@, [result |-> result, count |-> Len(pushed)])]
              /\ IF callbackThrows
                 THEN /\ threw' = [threw EXCEPT ![i] = @ \cup {"onProgress"}]
                      /\ exit' = [exit EXCEPT ![i] = "error"]
                      /\ pc' = [pc EXCEPT ![i] = "stop"]
                 ELSE /\ pc' = [pc EXCEPT ![i] = "next"]
                      /\ UNCHANGED <<threw, exit>>
     ELSE /\ pc' = [pc EXCEPT ![i] = "read"]
          /\ UNCHANGED <<results, seen, callbacks, threw, exit>>

onPhrase(i, p, callbackThrows) ==
  /\ phrase' = [phrase EXCEPT ![i] = Some(p)]
  /\ IF isEndOfDocument(p)
     THEN /\ pc' = [pc EXCEPT ![i] = "stop"]
          /\ exit' = [exit EXCEPT ![i] = "sentinel"]
          /\ UNCHANGED <<results, seen, callbacks, threw>>
     ELSE IF isNewContent(p, seen[i])
     THEN LET result == newResult(results[i], p)
              pushed == Append(results[i], result)
          IN  /\ seen' = [seen EXCEPT ![i] = @ \cup {p}]
              /\ results' = [results EXCEPT ![i] = pushed]
              /\ callbacks' = [callbacks EXCEPT ![i] =
                                 Append(@, [result |-> result, count |-> Len(pushed)])]
              /\ IF callbackThrows
                 THEN /\ threw' = [threw EXCEPT ![i] = @ \cup {"onProgress"}]
                      /\ exit' = [exit EXCEPT ![i] = "error"]
                      /\ pc' = [pc EXCEPT ![i] = "stop"]
                 ELSE /\ pc' = [pc EXCEPT ![i] = "next"]
                      /\ UNCHANGED <<threw, exit>>
     ELSE /\ pc' = [pc EXCEPT ![i] = "next"]
          /\ UNCHANGED <<results, seen, callbacks, threw, exit>>

\* the progress callback of loadAndAnalyze: the first record clears the list,
\* every record is appended to it (addAnnouncementToList)
onProgress(list, result, count) ==
  (IF count = 1 THEN << >> ELSE list) \o <<RecordItem(result.index)>>

lastSpokenPhrase(i) ==
  /\ pc[i] = "read"
  /\ calls' = called(i, "lastSpokenPhrase")
  /\ \/ \E p \in Phrases, callbackThrows \in BOOLEAN :
          /\ callbackThrows => ~isEndOfDocument(p) /\ isNewContent(p, seen[i])
          /\ onPhrase(i, p, callbackThrows)
     \/ /\ threw' = [threw EXCEPT ![i] = @ \cup {"lastSpokenPhrase"}]
        /\ exit' = [exit EXCEPT ![i] = "error"]
        /\ pc' = [pc EXCEPT ![i] = "stop"]
        /\ UNCHANGED <<results, seen, callbacks, phrase>>
  /\ IF Len(callbacks'[i]) > Len(callbacks[i])
     THEN LET last == callbacks'[i][Len(callbacks'[i])]
          IN  \/ announcementList' = onProgress(announcementList, last.result, last.count)
              \/ \* the callback threw before it had changed the list
                 /\ "onProgress" \in threw'[i]
                 /\ UNCHANGED announcementList
     ELSE UNCHANGED announcementList
  /\ UNCHANGED <<virtual, appVars, safetyCounter, highlight, simpleRuns>>
  /\ UNCHANGED <<detectorVars, classifierVars, axeVars, ttsVars>>

(***************************************************************************)
(* await vsr.next(); safetyCounter++ and the loop test.  The iteration's   *)
(* phrase goes out of scope.                                               *)
(***************************************************************************)
\* Faulty variant: the catch block empties the results collected so far.
nextDiscarding(i) ==
  /\ pc[i] = "next"
  /\ calls' = called(i, "next")
  /\ \/ /\ safetyCounter' = [safetyCounter EXCEPT ![i] = @ + 1]
        /\ IF loopContinues(safetyCounter[i] + 1)
           THEN pc' = [pc EXCEPT ![i] = "read"] /\ UNCHANGED exit
           ELSE pc' = [pc EXCEPT ![i] = "stop"] /\ exit' = [exit EXCEPT ![i] = "ceiling"]
        /\ UNCHANGED <<threw, results>>
     \/ /\ threw' = [threw EXCEPT ![i] = @ \cup {"next"}]
        /\ exit' = [exit EXCEPT ![i] = "error"]
        /\ pc' = [pc EXCEPT ![i] = "stop"]
        /\ results' = [results EXCEPT ![i] = << >>]
        /\ UNCHANGED safetyCounter
  /\ phrase' = [phrase EXCEPT ![i] = None]
  /\ UNCHANGED <<virtual, appVars, seen, callbacks>>
  /\ UNCHANGED <<detectorVars, classifierVars, axeVars, uiVars, ttsVars>>

next(i) ==
  /\ pc[i] = "next"
  /\ calls' = called(i, "next")
  /\ \/ /\ safetyCounter' = [safetyCounter EXCEPT ![i] = @ + 1]
        /\ IF loopContinues(safetyCounter[i] + 1)
           THEN pc' = [pc EXCEPT ![i] = "read"] /\ UNCHANGED exit
           ELSE pc' = [pc EXCEPT ![i] = "stop"] /\ exit' = [exit EXCEPT ![i] = "ceiling"]
        /\ UNCHANGED threw
     \/ /\ threw' = [threw EXCEPT ![i] = @ \cup {"next"}]
        /\ exit' = [exit EXCEPT ![i] = "error"]
        /\ pc' = [pc EXCEPT ![i] = "stop"]
        /\ UNCHANGED safetyCounter
  /\ phrase' = [phrase EXCEPT ![i] = None]
  /\ UNCHANGED <<virtual, appVars, results, seen, callbacks>>
  /\ UNCHANGED <<detectorVars, classifierVars, axeVars, uiVars, ttsVars>>

(***************************************************************************)
(* finally { await vsr.stop() }, its failure caught; return results.       *)
(***************************************************************************)
\* Faulty variant: stop is called after the loop instead of in a finally block,
\* so a failed traversal leaves the narrator running.
stopWithoutFinally(i) ==
  /\ pc[i] = "stop"
  /\ IF exit[i] = "error"
     THEN UNCHANGED <<calls, threw>>
     ELSE /\ calls' = called(i, "stop")
          /\ \/ UNCHANGED threw
             \/ threw' = [threw EXCEPT ![i] = @ \cup {"stop"}]
  /\ pc' = [pc EXCEPT ![i] = "returned"]
  /\ phrase' = [phrase EXCEPT ![i] = None]
  /\ UNCHANGED <<virtual, appVars, results, seen, safetyCounter, callbacks, exit>>
  /\ UNCHANGED <<detectorVars, classifierVars, axeVars, uiVars, ttsVars>>

\* Faulty variant: the failure of stop is not caught and leaves analyzeContainer.
stopUncaught(i) ==
  /\ pc[i] = "stop"
  /\ calls' = called(i, "stop")
  /\ \/ /\ pc' = [pc EXCEPT ![i] = "returned"]
        /\ UNCHANGED threw
     \/ /\ threw' = [threw EXCEPT ![i] = @ \cup {"stop"}]
        /\ pc' = [pc EXCEPT ![i] = "raised"]
  /\ phrase' = [phrase EXCEPT ![i] = None]
  /\ UNCHANGED <<virtual, appVars, results, seen, safetyCounter, callbacks, exit>>
  /\ UNCHANGED <<detectorVars, classifierVars, axeVars, uiVars, ttsVars>>

stop(i) ==
  /\ pc[i] = "stop"
  /\ calls' = called(i, "stop")
  /\ \/ UNCHANGED threw
     \/ threw' = [threw EXCEPT ![i] = @ \cup {"stop"}]
  /\ pc' = [pc EXCEPT ![i] = "returned"]
  /\ phrase' = [phrase EXCEPT ![i] = None]
  /\ UNCHANGED <<virtual, appVars, results, seen, safetyCounter, callbacks, exit>>
  /\ UNCHANGED <<detectorVars, classifierVars, axeVars, uiVars, ttsVars>>

(***************************************************************************)
(* loadAndAnalyze resumes after `await analyzeContainer(...)`: the result  *)
(* is assigned and an empty one replaced by the direct scan; a rejection   *)
(* is caught and replaced by the direct scan.  analyzeContainer's locals   *)
(* are gone once it has returned.                                          *)
(***************************************************************************)
\* updateAnnouncementList(): the list rebuilt from the records
updateAnnouncementList(records) ==
  IF Len(records) = 0 THEN <<PlaceholderItem>>
  ELSE [n \in 1..Len(records) |-> RecordItem(n - 1)]

\* highlightElementInPreview(element): the overlay the frame holds after the
\* call; a record of the narrator has no element
highlightElementInPreview(record, frame, overlay) ==
  IF "element" \notin DOMAIN record \/ record.element \notin DOMAIN frame
  THEN overlay
  ELSE Some(record.element)

afterAnalyzeContainer(i) ==
  /\ \/ /\ pc[i] = "returned"
        /\ ~needsFallback(results[i])
        /\ analysisResults' = results[i]
        /\ IF Len(results[i]) > 0
           THEN /\ currentIndex' = 0
                /\ highlight' = highlightElementInPreview(results[i][1], previewFrame,
                                                         highlight)
           ELSE UNCHANGED <<currentIndex, highlight>>
        /\ pc' = [pc EXCEPT ![i] = "axe"]
        /\ UNCHANGED <<announcementList, simpleRuns, threw>>
     \/ /\ pc[i] = "returned"
        /\ needsFallback(results[i])
        /\ IF analyzeContainerSimpleRaises(previewFrame)
           THEN \* the catch block calls it again, and loadAndAnalyze rejects
                /\ analysisResults' = results[i]
                /\ simpleRuns' = [simpleRuns EXCEPT ![i] = @ + 2]
                /\ threw' = [threw EXCEPT ![i] = @ \cup {"analyzeContainerSimple"}]
                /\ pc' = [pc EXCEPT ![i] = "rejected"]
                /\ UNCHANGED <<currentIndex, announcementList, highlight>>
           ELSE LET records == analyzeContainerSimple(previewFrame)
                IN  /\ analysisResults' = records
                    /\ announcementList' = updateAnnouncementList(records)
                    /\ simpleRuns' = [simpleRuns EXCEPT ![i] = @ + 1]
                    /\ IF Len(records) > 0
                       THEN /\ currentIndex' = 0
                            /\ highlight' = highlightElementInPreview(records[1], previewFrame,
                                                                     highlight)
                       ELSE UNCHANGED <<currentIndex, highlight>>
                    /\ pc' = [pc EXCEPT ![i] = "axe"]
                    /\ UNCHANGED threw
     \/ /\ pc[i] = "raised"
        /\ simpleRuns' = [simpleRuns EXCEPT ![i] = @ + 1]
        /\ IF analyzeContainerSimpleRaises(previewFrame)
           THEN /\ threw' = [threw EXCEPT ![i] = @ \cup {"analyzeContainerSimple"}]
                /\ pc' = [pc EXCEPT ![i] = "rejected"]
                /\ UNCHANGED <<analysisResults, announcementList>>
           ELSE LET records == analyzeContainerSimple(previewFrame)
                IN  /\ analysisResults' = records
                    /\ announcementList' = IF Len(records) = 0 THEN <<ErrorItem>>
                                           ELSE updateAnnouncementList(records)
                    /\ pc' = [pc EXCEPT ![i] = "axe"]
                    /\ UNCHANGED threw
        /\ UNCHANGED <<currentIndex, highlight>>
  /\ results' = [results EXCEPT ![i] = << >>]
  /\ seen' = [seen EXCEPT ![i] = {}]
  /\ safetyCounter' = [safetyCounter EXCEPT ![i] = 0]
  /\ phrase' = [phrase EXCEPT ![i] = None]
  /\ calls' = [calls EXCEPT ![i] = NoCalls]
  /\ callbacks' = [callbacks EXCEPT ![i] = << >>]
  /\ UNCHANGED <<virtual, axeResults, previewFrame, enhanceAiBtnDisabled, exit>>
  /\ UNCHANGED <<detectorVars, classifierVars, axeVars, ttsVars>>

(***************************************************************************)
(* axeResults = await runAxeAnalysis(previewFrame), with loadAndAnalyze's  *)
(* try and catch around it.  runAxeAnalysis awaits loadAxe, which returns  *)
(* the cached engine or imports it; a failed import is replaced by a new   *)
(* error, thrown outside runAxeAnalysis's try.  Then the engine runs: what *)
(* it throws, and what reading its result throws, is caught, logged and    *)
(* thrown again.  loadAndAnalyze assigns and renders the result, or shows  *)
(* the message of the error; either way the AI button is enabled again     *)
(* and loadAndAnalyze ends.                                                *)
(***************************************************************************)
\* the catch block of loadAndAnalyze
axeAnalysisFailed(thrown, rejected) ==
  /\ axeOutcome' = [returned |-> None, thrown |-> thrown, rejected |-> Some(rejected)]
  /\ issuesContent' = "Axe analysis failed: " \o rejected.message
  /\ UNCHANGED axeResults

runAxeAnalysis(i) ==
  /\ pc[i] = "axe"
  /\ \/ \* loadAxe: the import fails
        /\ ~axe
        /\ \E e \in ImportErrors : axeAnalysisFailed(Some(e), loadAxeRejection(e))
        /\ UNCHANGED axe
     \/ \* axe.run throws
        /\ axe' = TRUE
        /\ \E e \in RunErrors : axeAnalysisFailed(Some(e), e)
     \/ \* axe.run returns
        /\ axe' = TRUE
        /\ \E output \in AxeOutputs :
             IF readsMissingList(output)
             THEN /\ \E e \in TypeErrors :
                       /\ axeOutcome' = [returned |-> Some(output), thrown |-> None,
                                         rejected |-> Some(e)]
                       /\ issuesContent' = "Axe analysis failed: " \o e.message
                  /\ UNCHANGED axeResults
             ELSE /\ axeResults' = Some(formatResults(output))
                  /\ issuesContent' = renderAxeResults(formatResults(output))
                  /\ axeOutcome' = [returned |-> Some(output), thrown |-> None,
                                    rejected |-> None]
  /\ enhanceAiBtnDisabled' = FALSE
  /\ pc' = [pc EXCEPT ![i] = "done"]
  /\ UNCHANGED <<virtual, analysisResults, currentIndex, previewFrame,
                 loopVars, calls, threw>>
  /\ UNCHANGED <<detectorVars, classifierVars, uiVars, ttsVars>>

(***************************************************************************)
(* The activation frame of a finished invocation is released.              *)
(***************************************************************************)
release(i) ==
  /\ pc[i] \in {"done", "rejected"}
  /\ pc' = [pc EXCEPT ![i] = "idle"]
  /\ threw' = [threw EXCEPT ![i] = {}]
  /\ exit' = [exit EXCEPT ![i] = "none"]
  /\ simpleRuns' = [simpleRuns EXCEPT ![i] = 0]
  /\ UNCHANGED <<virtual, appVars, loopVars0, calls, announcementList, highlight>>
  /\ UNCHANGED <<detectorVars, classifierVars, axeVars, ttsVars>>

\* The user who waits: an analysis is started when none is in flight.
noneInFlight == \A j \in Invocations : pc[j] = "idle"

Next ==
  \/ \E i \in Invocations, html \in Documents : noneInFlight /\ loadAndAnalyze(i, html)
  \/ \E i \in Invocations : initVirtualScreenReader(i)
  \/ \E i \in Invocations : start(i)
  \/ \E i \in Invocations : lastSpokenPhrase(i)
  \/ \E i \in Invocations : next(i)
  \/ \E i \in Invocations : stop(i)
  \/ \E i \in Invocations : afterAnalyzeContainer(i)
  \/ \E i \in Invocations : runAxeAnalysis(i)
  \/ \E i \in Invocations : release(i)

Spec == Init /\ [][Next]_vars

(***************************************************************************)
(* The user who does not wait: a sample card or the Analyze button is      *)
(* clicked while an earlier analysis is suspended at one of its awaits.    *)
(* The documents are short: the narrator reaches the end of the document   *)
(* after at most MaxPositions steps.                                       *)
(***************************************************************************)
shortDocument(i) ==
  safetyCounter[i] >= MaxPositions => phrase[i] \in {None, Some("end of document")}

NextOverlap ==
  \/ \E i \in Invocations, html \in Documents : loadAndAnalyze(i, html)
  \/ \E i \in Invocations : initVirtualScreenReader(i)
  \/ \E i \in Invocations : start(i)
  \/ \E i \in Invocations : lastSpokenPhrase(i) /\ shortDocument(i)'
  \/ \E i \in Invocations : next(i)
  \/ \E i \in Invocations : stop(i)
  \/ \E i \in Invocations : afterAnalyzeContainer(i)
  \/ \E i \in Invocations : runAxeAnalysis(i)
  \/ \E i \in Invocations : release(i)

SpecOverlap == Init /\ [][NextOverlap]_vars

(***************************************************************************)
(* analyzeContainerSimple(container), called on the container to narrate   *)
(* it: the records become the announcements handed to                      *)
(* detectPotentialIssues, or the call raises.                              *)
(***************************************************************************)
directScan ==
  /\ dpiPc = "scan"
  /\ IF analyzeContainerSimpleRaises(dpiArgs.container[1])
     THEN /\ dpiPc' = "scanRaised"
          /\ UNCHANGED dpiArgs
     ELSE /\ dpiPc' = "scanned"
          /\ dpiArgs' = [dpiArgs EXCEPT
                           !.analysisResults = analyzeContainerSimple(dpiArgs.container[1])]
  /\ UNCHANGED <<dpiSource, dpiFirst, issues, dpiReturn>>
  /\ UNCHANGED <<virtual, appVars, pc, loopVars, calls, threw, classifierVars, axeVars, uiVars, ttsVars>>

(***************************************************************************)
(* detectPotentialIssues(analysisResults, container): the announcement     *)
(* pass, the container scan when a container is given, and the filter,     *)
(* in one synchronous call.  The issues array and the seen set are locals  *)
(* of the call.                                                            *)
(***************************************************************************)
\* Faulty variant: the seen set of the filter is module state, kept from call to call.
detectPotentialIssuesSharedSeen ==
  /\ dpiPc \in {"called", "scanned"}
  /\ IF dpiArgs.container /= None /\ scanContainerRaises(dpiArgs.container[1])
     THEN /\ dpiPc' = "raised"
          /\ UNCHANGED <<issues, dpiReturn>>
     ELSE /\ issues' = collectIssues(dpiArgs.analysisResults, dpiArgs.container)
          /\ dpiReturn' = filterFirst(issues',
                             IF dpiFirst = None THEN {}
                             ELSE {issueKey(dpiFirst[1].return[n]) :
                                     n \in 1..Len(dpiFirst[1].return)})
          /\ dpiPc' = "returned"
  /\ UNCHANGED <<dpiSource, dpiFirst, dpiArgs>>
  /\ UNCHANGED <<virtual, appVars, pc, loopVars, calls, threw, classifierVars, axeVars, uiVars, ttsVars>>

detectPotentialIssues ==
  /\ dpiPc \in {"called", "scanned"}
  /\ IF dpiArgs.container /= None /\ scanContainerRaises(dpiArgs.container[1])
     THEN /\ dpiPc' = "raised"
          /\ UNCHANGED <<issues, dpiReturn>>
     ELSE /\ issues' = collectIssues(dpiArgs.analysisResults, dpiArgs.container)
          /\ dpiReturn' = filterFirst(issues', {})
          /\ dpiPc' = "returned"
  /\ UNCHANGED <<dpiSource, dpiFirst, dpiArgs>>
  /\ UNCHANGED <<virtual, appVars, pc, loopVars, calls, threw, classifierVars, axeVars, uiVars, ttsVars>>

(***************************************************************************)
(* The caller repeats the call on the unchanged container: from the        *)
(* direct scan on when the announcements came from it, with the same       *)
(* announcement records otherwise.                                         *)
(***************************************************************************)
callAgain ==
  /\ dpiPc = "returned"
  /\ dpiFirst = None
  /\ dpiFirst' = Some([args |-> dpiArgs, return |-> dpiReturn])
  /\ IF dpiSource = "scan"
     THEN /\ dpiPc' = "scan"
          /\ dpiArgs' = [dpiArgs EXCEPT !.analysisResults = << >>]
     ELSE /\ dpiPc' = "called"
          /\ UNCHANGED dpiArgs
  /\ UNCHANGED <<dpiSource, issues, dpiReturn>>
  /\ UNCHANGED <<virtual, appVars, pc, loopVars, calls, threw, classifierVars, axeVars, uiVars, ttsVars>>

InitIssues ==
  /\ appIdle
  /\ \/ /\ dpiSource = "given"
        /\ dpiPc = "called"
        /\ dpiArgs \in [analysisResults : AnnouncementRecords, container : Containers]
     \/ /\ dpiSource = "scan"
        /\ dpiPc = "scan"
        /\ dpiArgs \in [analysisResults : {<< >>}, container : Containers \ {None}]
  /\ dpiFirst = None
  /\ issues = << >>
  /\ dpiReturn = << >>
  /\ classifierIdle

NextIssues ==
  \/ directScan
  \/ detectPotentialIssues
  \/ callAgain

SpecIssues == InitIssues /\ [][NextIssues]_vars

(***************************************************************************)
(* analyzeContainer builds the record of a new phrase: its category is     *)
(* getElementCategory(phrase).  The classification of one phrase, on its   *)
(* own.                                                                    *)
(***************************************************************************)
classifyPhrase ==
  /\ gecPc = "called"
  /\ gecResult' = Some(newResult(<< >>, gecArg))
  /\ gecPc' = "returned"
  /\ UNCHANGED gecArg
  /\ UNCHANGED <<virtual, appVars, pc, loopVars, calls, threw, detectorVars, axeVars, uiVars, ttsVars>>

InitCategory ==
  /\ appIdle
  /\ detectorIdle
  /\ gecPc = "called"
  /\ gecArg \in SpokenPhrases
  /\ gecResult = None

NextCategory == classifyPhrase

SpecCategory == InitCategory /\ [][NextCategory]_vars


(***************************************************************************)
(* Properties.                                                             *)
(***************************************************************************)
NarratorOps == {"start", "lastSpokenPhrase", "next", "stop"}

\* the step in which loadAndAnalyze resumes after analyzeContainer
resumes(i) == pc[i] \in {"returned", "raised"} /\ pc'[i] = "axe"

\* some selector of the direct-scan table matches some element of the document
tableMatches(doc) ==
  \E k \in 1..Len(selectors), n \in 1..Len(doc) : matches(selectors[k].selector, doc[n])

\* the announcements of a record sequence, in order
announcements(resultSeq) == [n \in 1..Len(resultSeq) |-> resultSeq[n].announcement]

C2_StopExactlyOnce ==
  \A i \in Invocations :
    /\ calls[i].stop <= 1
    /\ calls[i].stop <= calls[i].start
    /\ calls[i].stop = 1 => calls[i].last = "stop"
    /\ (pc[i] = "returned" /\ calls[i].start >= 1)
         => calls[i].stop = 1 /\ exit[i] \in {"sentinel", "ceiling", "error"}
    /\ pc[i] = "returned" => calls[i].start = 1
    /\ pc[i] = "raised" => calls[i].start = 0 /\ calls[i].stop = 0

C2_Witness ==
  \E i \in Invocations :
    /\ pc[i] = "returned"
    /\ "onProgress" \in threw[i]
    /\ calls[i].start = 1
    /\ calls[i].stop = 1

(* C3: the records of analyzeContainer never hold the same announcement    *)
(* twice, at any moment of the traversal and in the sequence returned.     *)
C3_NoDuplicateAnnouncement ==
  \A i \in Invocations :
    \A a, b \in 1..Len(results[i]) :
      a /= b => results[i][a].announcement /= results[i][b].announcement

\* an already recorded phrase was spoken again and suppressed
C3_Witness ==
  \E i \in Invocations :
    /\ pc[i] = "next"
    /\ phrase[i] /= None
    /\ Len(results[i]) >= 2
    /\ \E n \in 1..(Len(results[i]) - 1) : results[i][n].announcement = phrase[i][1]

(* C4: when the narrator never speaks 'end of document' and nothing        *)
(* throws, analyzeContainer returns after exactly 500 lastSpokenPhrase     *)
(* calls and 500 next calls; no call ever makes a 501st read.              *)
C4_CeilingRespected ==
  \A i \in Invocations :
    /\ calls[i].lastSpokenPhrase <= 500
    /\ calls[i].next <= 500
    /\ Len(results[i]) <= calls[i].lastSpokenPhrase
    /\ (pc[i] = "returned" /\ exit[i] /= "sentinel"
          /\ threw[i] \cap {"start", "lastSpokenPhrase", "next", "onProgress"} = {})
         => /\ exit[i] = "ceiling"
            /\ calls[i].lastSpokenPhrase = 500
            /\ calls[i].next = 500
            /\ safetyCounter[i] = 500

C4_Witness ==
  \E i \in Invocations :
    /\ pc[i] = "returned"
    /\ exit[i] = "ceiling"
    /\ threw[i] = {}
    /\ calls[i].lastSpokenPhrase = 500
    /\ Len(results[i]) = NumPhrases


(* C5 as claimed: analyzeContainer never raises to its caller, whichever   *)
(* operation fails, the loading of the narrator included.                  *)
C5_NeverRaises ==
  \A i \in Invocations : pc[i] /= "raised"

(* C5 as amended: analyzeContainer raises to its caller only when          *)
(* initVirtualScreenReader failed, before any narrator call; once start,   *)
(* lastSpokenPhrase, next, stop or the progress callback has thrown, the   *)
(* call goes on to stop the narrator and returns its record sequence.      *)
C5_RaisesOnlyOnInitFailure ==
  \A i \in Invocations :
    /\ pc[i] = "raised" => threw[i] = {"initVirtualScreenReader"} /\ calls[i] = NoCalls
    /\ "initVirtualScreenReader" \in threw[i] => threw[i] = {"initVirtualScreenReader"}
    /\ threw[i] \cap (NarratorOps \cup {"onProgress"}) /= {}
         => pc[i] \in {"stop", "returned", "axe", "done"}
    /\ pc[i] = "stop" => ENABLED stop(i)

C5_Witness ==
  \E i \in Invocations :
    /\ pc[i] = "returned"
    /\ {"next", "stop"} \subseteq threw[i]
    /\ Len(results[i]) >= 1

(* C6: when start, lastSpokenPhrase or next throws after k records have    *)
(* been handed to the progress callback, analyzeContainer returns exactly  *)
(* those k records, in order and unchanged; the throwing step and the      *)
(* stop that follows leave the records as they are.                        *)
C6_PartialResultsKept ==
  /\ [](\A i \in Invocations :
          (pc[i] \in {"stop", "returned"}
             /\ threw[i] \cap {"start", "lastSpokenPhrase", "next"} /= {})
            => /\ Len(results[i]) = Len(callbacks[i])
               /\ \A n \in 1..Len(results[i]) :
                    /\ results[i][n] = callbacks[i][n].result
                    /\ callbacks[i][n].count = n)
  /\ [][\A i \in Invocations :
          (pc[i] \in {"start", "read", "next", "stop"} /\ pc'[i] \in {"stop", "returned"}
             /\ exit'[i] = "error" /\ "onProgress" \notin threw'[i])
            => results'[i] = results[i]]_vars

C6_Witness ==
  \E i \in Invocations :
    /\ pc[i] = "returned"
    /\ "lastSpokenPhrase" \in threw[i]
    /\ Len(results[i]) = 2
    /\ Len(callbacks[i]) = 2

(* C7 as claimed: whenever start, lastSpokenPhrase, next or stop threw     *)
(* during an analysis, the invocation's final analysisResults is the       *)
(* output of analyzeContainerSimple.                                       *)
C7_FallbackOnAnyThrow ==
  \A i \in Invocations :
    (pc[i] \in {"axe", "done"} /\ threw[i] \cap NarratorOps /= {})
      => analysisResults = analyzeContainerSimple(previewFrame)

(* C8: when lastSpokenPhrase returns exactly 'end of document', no record  *)
(* is added and no callback made for it, and the only narrator call that   *)
(* follows is stop.                                                        *)
C8_SentinelTerminates ==
  /\ [][\A i \in Invocations :
          /\ (pc[i] = "read" /\ phrase'[i] = Some("end of document"))
               => /\ results'[i] = results[i]
                  /\ callbacks'[i] = callbacks[i]
                  /\ pc'[i] = "stop"
                  /\ exit'[i] = "sentinel"
          /\ (pc[i] = "stop" /\ exit[i] = "sentinel" /\ calls'[i] /= calls[i])
               => /\ calls'[i] = [calls[i] EXCEPT !.stop = 1, !.last = "stop"]
                  /\ pc'[i] = "returned"
                  /\ results'[i] = results[i]
                  /\ callbacks'[i] = callbacks[i]]_vars
  /\ [](\A i \in Invocations :
          exit[i] = "sentinel" /\ pc[i] \in {"stop", "returned"}
            => /\ calls[i].lastSpokenPhrase = calls[i].next + 1
               /\ threw[i] \subseteq {"stop"}
               /\ \A n \in 1..Len(results[i]) :
                    results[i][n].announcement /= "end of document")

C8_Witness ==
  \E i \in Invocations :
    /\ pc[i] = "returned"
    /\ exit[i] = "sentinel"
    /\ Len(results[i]) >= 1
    /\ calls[i].stop = 1

(* C9: a phrase that is empty, already recorded, 'document', or begins     *)
(* with 'end of ' (the sentinel apart) adds no record and makes no         *)
(* callback, and a next call follows; every other phrase adds exactly one  *)
(* record, with that phrase as its announcement, and makes one callback.   *)
isMarkerOrRepeat(p, resultSeq) ==
  \/ p = ""
  \/ \E n \in 1..Len(resultSeq) : resultSeq[n].announcement = p
  \/ p = "document"
  \/ (Len(p) >= 7 /\ SubSeq(p, 1, 7) = "end of ")

C9_SkipOrRecord ==
  /\ [][\A i \in Invocations :
          (pc[i] = "read" /\ phrase'[i] /= None /\ phrase'[i] /= Some("end of document"))
            => LET p == phrase'[i][1]
               IN  IF isMarkerOrRepeat(p, results[i])
                   THEN /\ results'[i] = results[i]
                        /\ callbacks'[i] = callbacks[i]
                        /\ pc'[i] = "next"
                   ELSE /\ Len(results'[i]) = Len(results[i]) + 1
                        /\ SubSeq(results'[i], 1, Len(results[i])) = results[i]
                        /\ results'[i][Len(results'[i])].announcement = p
                        /\ Len(callbacks'[i]) = Len(callbacks[i]) + 1]_vars
  /\ [](\A i \in Invocations : pc[i] = "next" => ENABLED next(i))

C9_Witness ==
  \E i \in Invocations :
    /\ pc[i] = "next"
    /\ phrase[i] = Some("end of main")
    /\ Len(results[i]) = 1
    /\ calls[i].lastSpokenPhrase = 3

(* C10: the narrator calls of one analyzeContainer call are start, then    *)
(* lastSpokenPhrase and next alternating from lastSpokenPhrase on, then    *)
(* stop: each call made is the one this order allows after the last one.   *)
C10_StrictAlternation ==
  /\ [](\A i \in Invocations :
          LET c == calls[i]
          IN  CASE c.last = "none" -> c = NoCalls
                [] c.last = "start" ->
                     c.start = 1 /\ c.lastSpokenPhrase = 0 /\ c.next = 0 /\ c.stop = 0
                [] c.last = "lastSpokenPhrase" ->
                     c.start = 1 /\ c.lastSpokenPhrase = c.next + 1 /\ c.stop = 0
                [] c.last = "next" ->
                     c.start = 1 /\ c.lastSpokenPhrase = c.next /\ c.next >= 1 /\ c.stop = 0
                [] c.last = "stop" ->
                     /\ c.start = 1 /\ c.stop = 1
                     /\ c.lastSpokenPhrase \in {c.next, c.next + 1})
  /\ [][\A i \in Invocations :
          (calls'[i] /= calls[i] /\ calls'[i] /= NoCalls)
            => /\ <<calls[i].last, calls'[i].last>> \in
                    { <<"none", "start">>,
                      <<"start", "lastSpokenPhrase">>, <<"start", "stop">>,
                      <<"lastSpokenPhrase", "next">>, <<"lastSpokenPhrase", "stop">>,
                      <<"next", "lastSpokenPhrase">>, <<"next", "stop">> }
               /\ calls'[i] = [calls[i] EXCEPT ![calls'[i].last] = @ + 1,
                                               !.last = calls'[i].last]]_vars
  /\ [](\A i \in Invocations : pc[i] = "returned" => calls[i].last = "stop")

C10_Witness ==
  \E i \in Invocations :
    /\ pc[i] = "returned"
    /\ calls[i] = [start |-> 1, lastSpokenPhrase |-> 3, next |-> 2, stop |-> 1, last |-> "stop"]


\* C11: in every sequence returned by analyzeContainer (the results array, also a
\* partial one returned after a failure) and by analyzeContainerSimple (assigned
\* to analysisResults by the fallback), the record at position n, counted from
\* zero, has index n.
indexIsPosition(resultSeq) == \A n \in 1..Len(resultSeq) : resultSeq[n].index = n - 1

C11_IndexIsPosition ==
  /\ \A i \in Invocations : indexIsPosition(results[i])
  /\ indexIsPosition(analysisResults)
  /\ \A i \in Invocations :
       pc[i] = "axe" /\ analysisResults /= << >> /\ "element" \in DOMAIN analysisResults[1]
         => /\ analysisResults = analyzeContainerSimple(previewFrame)
            /\ indexIsPosition(analyzeContainerSimple(previewFrame))

\* a traversal that failed after two records returns the two of them
C11_Witness ==
  \E i \in Invocations :
    pc[i] = "returned" /\ exit[i] = "error" /\ Len(results[i]) >= 2

\* a direct scan that matched three elements has been assigned
C11_FallbackReached ==
  \E i \in Invocations :
    /\ pc[i] = "axe" /\ Len(analysisResults) = 3
    /\ analysisResults = analyzeContainerSimple(previewFrame)

\* C12: the progress callback is invoked exactly once per recorded announcement,
\* in the step that appends the record (the step in which lastSpokenPhrase
\* returned, hence before the next narrator call), with that record and a
\* running count equal to its index + 1; the invocations are in increasing
\* index order, and a skipped phrase invokes nothing.
C12_CallbackPerRecord ==
  /\ [](\A i \in Invocations :
          /\ Len(callbacks[i]) = Len(results[i])
          /\ \A n \in 1..Len(callbacks[i]) :
               /\ callbacks[i][n].result = results[i][n]
               /\ callbacks[i][n].count = results[i][n].index + 1
               /\ n > 1 => callbacks[i][n - 1].result.index < callbacks[i][n].result.index)
  /\ [][\A i \in Invocations :
          callbacks'[i] /= callbacks[i] /\ ~resumes(i)
            => /\ pc[i] = "read"
               /\ calls'[i] = [calls[i] EXCEPT !.lastSpokenPhrase = @ + 1,
                                               !.last = "lastSpokenPhrase"]
               /\ phrase'[i] /= None
               /\ ~isMarkerOrRepeat(phrase'[i][1], results[i])
               /\ phrase'[i][1] /= "end of document"
               /\ callbacks'[i] =
                    Append(callbacks[i],
                           [result |-> results'[i][Len(results'[i])],
                            count |-> Len(results[i]) + 1])]_vars

\* two callbacks have been made, the second for the record of index 1 with
\* count 2, and a marker spoken in between made none
C12_Witness ==
  \E i \in Invocations :
    /\ Len(callbacks[i]) = 2
    /\ callbacks[i][2].count = 2
    /\ callbacks[i][2].result.index = 1
    /\ calls[i].lastSpokenPhrase = 3

\* no two records of the sequence share an announcement
uniqueAnnouncements(resultSeq) ==
  \A m, n \in 1..Len(resultSeq) :
    resultSeq[m].announcement = resultSeq[n].announcement => m = n

\* the number of (table entry, matching element) pairs of a document
RECURSIVE matchesFrom(_, _)
matchesFrom(doc, k) ==
  IF k > Len(selectors) THEN 0
  ELSE Len(querySelectorAll(doc, selectors[k].selector)) + matchesFrom(doc, k + 1)

\* C13 as stated: after a loadAndAnalyze invocation has completed, whether its
\* result came from the traversal or from the direct scan, no two records of
\* analysisResults share an announcement.
C13_NoSharedAnnouncement ==
  \A i \in Invocations : pc[i] = "done" => uniqueAnnouncements(analysisResults)

\* C13 amended: a result that came from the narrator traversal has no two
\* records with the same announcement; a result that came from the direct scan
\* has one record per table entry and matching element, repeats included.
C13_TraversalResultUnique ==
  /\ [][\A i \in Invocations :
          resumes(i) /\ pc[i] = "returned" /\ results[i] /= << >>
            => analysisResults' = results[i] /\ uniqueAnnouncements(analysisResults')]_vars
  /\ [](\A i \in Invocations :
          pc[i] \in {"axe", "done"}
            => \/ uniqueAnnouncements(analysisResults)
               \/ /\ analysisResults = analyzeContainerSimple(previewFrame)
                  /\ Len(analysisResults) = matchesFrom(previewFrame, 1))

\* an invocation has completed with two records that came from the traversal
C13_Witness ==
  \E i \in Invocations :
    /\ pc[i] = "done"
    /\ Len(analysisResults) = 2
    /\ "element" \notin DOMAIN analysisResults[1]

\* the invocation has made a narrator call and its result is not assigned yet
midway(i) == calls[i].start >= 1 /\ pc[i] \in {"read", "next", "stop", "returned"}

\* the invocation has started the narrator and not yet called stop
traversing(i) == calls[i].start > calls[i].stop

\* C14: two analyses never interleave.  When loadAndAnalyze is invoked while an
\* earlier invocation is in flight, the narrator calls, progress callbacks and
\* result assignment of one invocation all come before or all after those of
\* the other: never are two invocations both past their first narrator call
\* and short of their result assignment.
C14_NoInterleaving ==
  \A i, j \in Invocations : midway(i) /\ midway(j) => i = j

\* C15: the calls on the shared narrator are strictly paired over all
\* invocations, overlapping ones included: start is never called while another
\* invocation has started and not yet stopped the narrator, and stop is never
\* called by one invocation while another is still traversing.
C15_StrictPairs ==
  /\ [](\A i, j \in Invocations : traversing(i) /\ traversing(j) => i = j)
  /\ [][\A i, j \in Invocations :
          calls'[i].stop > calls[i].stop /\ i /= j => ~traversing(j)]_vars

\* the (type, description) pair of an issue; a property the issue lacks is None
pairOf(issue) ==
  << IF "type" \in DOMAIN issue THEN Some(issue.type) ELSE None,
     IF "description" \in DOMAIN issue THEN Some(issue.description) ELSE None >>

\* the positions of a sequence of issues that hold the first issue of a pair
firstOfPair(issueSeq) ==
  {n \in 1..Len(issueSeq) : \A m \in 1..(n - 1) : pairOf(issueSeq[m]) /= pairOf(issueSeq[n])}

\* C16: the list returned by detectPotentialIssues never holds two issues with
\* the same (type, description) pair, and the key type-description the filter
\* compares is equal for two collected issues only when their pairs are equal.
C16_NoDuplicatePair ==
  dpiPc = "returned"
    => /\ \A m, n \in 1..Len(dpiReturn) :
            pairOf(dpiReturn[m]) = pairOf(dpiReturn[n]) => m = n
       /\ \A m, n \in 1..Len(issues) :
            issueKey(issues[m]) = issueKey(issues[n])
              => pairOf(issues[m]) = pairOf(issues[n])

\* the filter has dropped a repeated pair and kept three different ones
C16_Witness ==
  /\ dpiPc = "returned"
  /\ Len(dpiReturn) >= 3
  /\ Len(issues) > Len(dpiReturn)

\* C17: the returned list is the collected list (the issues of the
\* announcement pass followed by those of the container scan) restricted to
\* the first issue of every (type, description) pair: a subsequence in the
\* same order, one issue for every pair collected, each issue unchanged.
C17_OnlyFilters ==
  dpiPc = "returned"
    => LET kept == firstOfPair(issues)
           kth(k) == CHOOSE n \in kept : Cardinality({m \in kept : m <= n}) = k
       IN  /\ Len(dpiReturn) = Cardinality(kept)
           /\ \A k \in 1..Len(dpiReturn) : dpiReturn[k] = issues[kth(k)]
           /\ \A n \in 1..Len(issues) :
                \E k \in 1..Len(dpiReturn) : pairOf(dpiReturn[k]) = pairOf(issues[n])
           /\ \A m, n \in 1..Len(issues) :
                m < n /\ "announcement" \in DOMAIN issues[n]
                  => "announcement" \in DOMAIN issues[m]

\* an issue of the announcement pass and a later issue of the container scan
\* with the same type and another description are both kept, and a later
\* repeat of a pair has been dropped
C17_Witness ==
  /\ dpiPc = "returned"
  /\ Len(issues) > Len(dpiReturn)
  /\ \E m, n \in 1..Len(dpiReturn) :
       /\ m < n
       /\ "announcement" \in DOMAIN dpiReturn[m]
       /\ "element" \in DOMAIN dpiReturn[n]
       /\ "type" \in DOMAIN dpiReturn[m]
       /\ dpiReturn[m].type = dpiReturn[n].type

\* the issues of a collected list that came from the announcement pass, and
\* those the container scan contributed
fromAnnouncements(issueSeq) ==
  LET carries(issue) == "announcement" \in DOMAIN issue
  IN  SelectSeq(issueSeq, carries)

fromContainer(issueSeq) ==
  LET structural(issue) == "announcement" \notin DOMAIN issue
  IN  SelectSeq(issueSeq, structural)

\* the type the announcement pass is to report for a bare role word
bareRoleType ==
  [button |-> "unlabeled_button", link |-> "empty_link", image |-> "missing_alt",
   img |-> "missing_alt", textbox |-> "unlabeled_input", edit |-> "unlabeled_input",
   checkbox |-> "unlabeled_checkbox"]

\* C18: the announcement pass emits an issue for an announcement exactly when
\* its trimmed, lower-cased text is one of button, link, image, img, textbox,
\* edit, checkbox; the issue has the type of that word, severity error and the
\* original announcement; every other announcement yields no issue.
C18_BareRoleWordsOnly ==
  dpiPc = "returned"
    => LET isBareRole(record) ==
             trim(toLowerCase(record.announcement)) \in DOMAIN bareRoleType
           want == SelectSeq(dpiArgs.analysisResults, isBareRole)
           got  == fromAnnouncements(issues)
       IN  /\ Len(got) = Len(want)
           /\ \A n \in 1..Len(got) :
                /\ got[n].announcement = want[n].announcement
                /\ got[n].severity = "error"
                /\ "type" \in DOMAIN got[n]
                /\ got[n].type = bareRoleType[trim(toLowerCase(want[n].announcement))]

\* C19: the container scan is independent of narration.  For the container
\* given, the set of issues the scan contributes is the same whatever
\* announcement records are passed along with it.
C19_ScanIndependentOfNarration ==
  dpiPc = "returned"
    => \A other \in AnnouncementRecords :
         LET here  == fromContainer(issues)
             there == fromContainer(collectIssues(other, dpiArgs.container))
         IN  {here[n] : n \in 1..Len(here)} = {there[n] : n \in 1..Len(there)}

\* C20: for a container with n >= 1 img elements lacking alt, the container
\* scan emits exactly one missing_alt issue, of severity error and referencing
\* the first such image in document order; with n = 0 it emits none.
C20_OneMissingAltPerScan ==
  dpiPc = "returned" /\ dpiArgs.container /= None
    => LET doc     == dpiArgs.container[1]
           lacking == {n \in 1..Len(doc) : doc[n].tag = "img" /\ doc[n].alt = None}
           scanned == fromContainer(issues)
           emitted == {n \in 1..Len(scanned) : scanned[n].type = "missing_alt"}
       IN  IF lacking = {}
           THEN emitted = {}
           ELSE /\ Cardinality(emitted) = 1
                /\ \A n \in emitted :
                     /\ scanned[n].severity = "error"
                     /\ scanned[n].element \in lacking
                     /\ \A m \in lacking : scanned[n].element <= m

\* the positions of the headings h1..h6 of a document, in document order
headingsOf(doc) ==
  LET RECURSIVE from(_)
      from(n) == IF n > Len(doc) THEN << >>
                 ELSE IF doc[n].tag \in {"h1", "h2", "h3", "h4", "h5", "h6"}
                 THEN <<n>> \o from(n + 1)
                 ELSE from(n + 1)
  IN  from(1)

headingLevel == [h1 |-> 1, h2 |-> 2, h3 |-> 3, h4 |-> 4, h5 |-> 5, h6 |-> 6]

\* C21: the container scan emits a heading_skip warning for a heading exactly
\* when a heading precedes it and its level exceeds the level of the
\* immediately preceding heading by more than 1; the description names both
\* levels; the first heading and a heading equal to, one deeper than or
\* shallower than its predecessor are not flagged.
C21_HeadingSkips ==
  dpiPc = "returned" /\ dpiArgs.container /= None
    => LET doc      == dpiArgs.container[1]
           headings == headingsOf(doc)
           skipped  == {k \in 2..Len(headings) :
                          headingLevel[doc[headings[k]].tag]
                            > headingLevel[doc[headings[k - 1]].tag] + 1}
           scanned  == fromContainer(issues)
           emitted  == {n \in 1..Len(scanned) : scanned[n].type = "heading_skip"}
       IN  /\ Cardinality(emitted) = Cardinality(skipped)
           /\ \A k \in skipped :
                \E n \in emitted :
                  /\ scanned[n].element = headings[k]
                  /\ scanned[n].severity = "warning"
                  /\ scanned[n].description =
                       "Heading level skipped from " \o doc[headings[k - 1]].tag
                         \o " to " \o doc[headings[k]].tag

\* two skips are flagged (h1 to h3, h2 to h4) among six headings that also
\* hold a shallower, an equal and a one-deeper successor
C21_Witness ==
  /\ dpiPc = "returned"
  /\ dpiArgs.container /= None
  /\ Len(headingsOf(dpiArgs.container[1])) = 6
  /\ \E m, n \in 1..Len(issues) :
       /\ issues[m].description = "Heading level skipped from h1 to h3"
       /\ issues[n].description = "Heading level skipped from h2 to h4"

\* C22: the container scan emits exactly one missing_main warning if and only
\* if the container has no main landmark (main or role=main) and holds more
\* than 2 content-bearing elements, counting paragraphs, headings of any level
\* and forms; otherwise it emits none.
C22_MissingMain ==
  dpiPc = "returned" /\ dpiArgs.container /= None
    => LET doc      == dpiArgs.container[1]
           hasMain  == \E n \in 1..Len(doc) : doc[n].tag = "main" \/ doc[n].role = Some("main")
           content  == {n \in 1..Len(doc) :
                          doc[n].tag \in {"p", "form", "h1", "h2", "h3", "h4", "h5", "h6"}}
           scanned  == fromContainer(issues)
           emitted  == {n \in 1..Len(scanned) : scanned[n].type = "missing_main"}
       IN  /\ Cardinality(emitted) = IF ~hasMain /\ Cardinality(content) > 2 THEN 1 ELSE 0
           /\ \A n \in emitted : scanned[n].severity = "warning"

(***************************************************************************)
(* The direct scan and the detector together.                              *)
(***************************************************************************)
\* no structural trigger holds in the document: a main landmark exists, every
\* img has an alt attribute, no heading is more than one level deeper than
\* the heading before it, and there is no button, link, clickable div or
\* span, or form control
cleanContainer(doc) ==
  LET headings == headingsOf(doc)
  IN  /\ \E n \in 1..Len(doc) : doc[n].tag = "main" \/ doc[n].role = Some("main")
      /\ \A n \in 1..Len(doc) :
           /\ doc[n].tag = "img" => doc[n].alt /= None
           /\ doc[n].tag \notin {"button", "a", "input", "textarea", "select"}
           /\ doc[n].role /= Some("button")
           /\ doc[n].onclick = None
      /\ \A k \in 2..Len(headings) :
           headingLevel[doc[headings[k]].tag] <= headingLevel[doc[headings[k - 1]].tag] + 1

\* C23: for a container in which no structural trigger holds,
\* detectPotentialIssues applied to the announcements analyzeContainerSimple
\* narrated for that container returns an empty issue list.
C23_CleanDocumentNoIssues ==
  /\ dpiSource = "scan"
  /\ dpiPc = "returned"
  /\ cleanContainer(dpiArgs.container[1])
  => dpiReturn = << >>

\* the clean document of the specification's example is narrated and yields
\* no issue
C23_ExampleClean ==
  /\ dpiSource = "scan"
  /\ dpiPc = "returned"
  /\ cleanContainer(dpiArgs.container[1])
  /\ \E n \in 1..Len(dpiArgs.analysisResults) :
       dpiArgs.analysisResults[n].announcement = "image, cat"
  /\ dpiReturn = << >>

\* the (table entry, matching element) pairs of a document, and how many of
\* them come before a pair in table order, then document order
scanPairs(doc) ==
  {pair \in (1..Len(selectors)) \X (1..Len(doc)) :
     matches(selectors[pair[1]].selector, doc[pair[2]])}

pairsBefore(doc, pair) ==
  {q \in scanPairs(doc) : q[1] < pair[1] \/ (q[1] = pair[1] /\ q[2] < pair[2])}

\* the direct scan has returned its records
scanReturned == dpiSource = "scan" /\ dpiPc \in {"scanned", "returned", "raised"}

\* C24: analyzeContainerSimple returns exactly one record per (table entry,
\* matching element) pair, the entries in table order and the elements of an
\* entry in document order, without de-duplication; each record carries the
\* entry's category and the matching element as its back-reference.
C24_OneRecordPerMatch ==
  scanReturned
    => LET doc     == dpiArgs.container[1]
           records == dpiArgs.analysisResults
       IN  /\ Len(records) = Cardinality(scanPairs(doc))
           /\ \A pair \in scanPairs(doc) :
                LET record == records[Cardinality(pairsBefore(doc, pair)) + 1]
                IN  /\ record.category = selectors[pair[1]].category
                    /\ record.element = pair[2]

\* two elements with the same label gave two records with the same
\* announcement, and an element of an earlier table entry comes before an
\* element that precedes it in the document
C24_Witness ==
  /\ scanReturned
  /\ \E m, n \in 1..Len(dpiArgs.analysisResults) :
       /\ m < n
       /\ dpiArgs.analysisResults[m].announcement = dpiArgs.analysisResults[n].announcement
       /\ dpiArgs.analysisResults[m].element /= dpiArgs.analysisResults[n].element
  /\ \E m, n \in 1..Len(dpiArgs.analysisResults) :
       /\ m < n
       /\ dpiArgs.analysisResults[m].category = dpiArgs.analysisResults[n].category
       /\ dpiArgs.analysisResults[m].element > dpiArgs.analysisResults[n].element

\* a generic text field: input of type text, input without type, textarea
textField(el) ==
  \/ el.tag = "input" /\ el.type \in {None, Some("text")}
  \/ el.tag = "textarea"

\* the text of the first label element whose for attribute equals the id, if any
labelTextFor(doc, id) ==
  LET labels == {n \in 1..Len(doc) : doc[n].tag = "label" /\ doc[n].for = Some(id)}
  IN  IF labels = {} THEN ""
      ELSE trim(doc[CHOOSE n \in labels : \A m \in labels : n <= m].text)

C26_DirectScanCannotFail ==
  dpiSource = "scan"
    => /\ dpiPc /= "scanRaised"
       /\ dpiPc = "scanned" /\ scanPairs(dpiArgs.container[1]) = {}
            => dpiArgs.analysisResults = << >>

\* a document no selector of the table matches is scanned to the empty sequence
C26_EmptyScan ==
  /\ dpiSource = "scan"
  /\ dpiPc = "scanned"
  /\ dpiArgs.container[1] /= << >>
  /\ dpiArgs.analysisResults = << >>

(***************************************************************************)
(* The classifier.                                                         *)
(***************************************************************************)
Categories == {"landmark", "heading", "interactive", "form", "content"}

\* the role words of a category, and all of them
roleWords(category) ==
  UNION {{CATEGORY_PATTERNS[k].patterns[n] : n \in 1..Len(CATEGORY_PATTERNS[k].patterns)} :
           k \in {j \in 1..Len(CATEGORY_PATTERNS) : CATEGORY_PATTERNS[j].category = category}}

allRoleWords == UNION {roleWords(c) : c \in Categories}

\* the phrase names the role: the role word alone or followed by a name
namesRole(p, word) == p = word \/ startsWith(p, word \o ", ")

\* 'heading, <text>, level n'
headingPhrase(p) ==
  /\ startsWith(p, "heading, ")
  /\ \E level \in 1..6 :
       /\ Len(p) >= Len("heading, ") + Len(", level 1")
       /\ SubSeq(p, Len(p) - Len(", level 1") + 1, Len(p)) = ", level " \o levelString(level)

\* C27: getElementCategory returns exactly one of landmark, heading,
\* interactive, form, content for every phrase; a phrase naming a landmark
\* role classifies as landmark, a heading phrase 'heading, <text>, level n'
\* as heading, a phrase containing no role word as content; the record
\* analyzeContainer builds has the category getElementCategory gives its
\* announcement.
C27_Classification ==
  gecPc = "returned"
    => LET record == gecResult[1]
           p      == record.announcement
       IN  /\ p = gecArg
           /\ record.category \in Categories
           /\ record.category = getElementCategory(p)
           /\ (\E word \in roleWords("landmark") : namesRole(p, word))
                => record.category = "landmark"
           /\ headingPhrase(p) => record.category = "heading"
           /\ (\A word \in allRoleWords : ~includes(toLowerCase(p), word))
                => record.category = "content"

\* the same without the heading phrases whose text holds a landmark word
C27_ExceptLandmarkWordsInHeadings ==
  gecPc = "returned"
    => LET record == gecResult[1]
           p      == record.announcement
       IN  /\ p = gecArg
           /\ record.category \in Categories
           /\ record.category = getElementCategory(p)
           /\ (\E word \in roleWords("landmark") : namesRole(p, word))
                => record.category = "landmark"
           /\ /\ headingPhrase(p)
              /\ \A word \in roleWords("landmark") : ~includes(toLowerCase(p), word)
              => record.category = "heading"
           /\ (\A word \in allRoleWords : ~includes(toLowerCase(p), word))
                => record.category = "content"

\* the three phrases of the specification's example have been classified
C27_Examples ==
  /\ gecPc = "returned"
  /\ \/ gecArg = "navigation, Main Menu" /\ gecResult[1].category = "landmark"
     \/ gecArg = "heading, Welcome, level 1" /\ gecResult[1].category = "heading"
     \/ gecArg = "some paragraph text" /\ gecResult[1].category = "content"

C28_WitnessGiven ==
  /\ dpiFirst /= None
  /\ dpiSource = "given"
  /\ dpiPc = "returned"
  /\ Len(dpiArgs.analysisResults) > 1
  /\ Len(dpiReturn) > 1

(***************************************************************************)
(* The rule engine.                                                        *)
(***************************************************************************)
\* the engine returned a result to the analysis that has just ended
engineReturned(i) == pc[i] = "done" /\ axeOutcome.returned /= None

\* C29: the rule engine's output is validated on receipt: when the engine
\* returns a result without a violations or an incomplete list the analysis
\* treats the missing list as empty instead of failing, and a violation
\* entry lacking any of id, impact, description, help, helpUrl is dropped,
\* the remaining entries keeping their order.
C29_ValidatedOnReceipt ==
  \A i \in Invocations :
    engineReturned(i)
      => LET output    == axeOutcome.returned[1]
             validated == validateAxeResults(output)
         IN  /\ axeOutcome.rejected = None
             /\ axeResults /= None
             /\ axeResults[1].violations = mapFormatViolation(validated.violations[1])
             /\ output.incomplete = None => axeResults[1].incomplete = << >>

\* what holds instead: the result is used as it came
C29_UsedAsReceived ==
  \A i \in Invocations :
    engineReturned(i)
      => LET output == axeOutcome.returned[1]
         IN  IF output.violations = None \/ output.incomplete = None \/ output.passes = None
             THEN /\ axeOutcome.rejected /= None
                  /\ axeOutcome.rejected[1].name = "TypeError"
                  /\ axeResults = None
             ELSE /\ axeResults /= None
                  /\ Len(axeResults[1].violations) = Len(output.violations[1])
                  /\ Len(axeResults[1].incomplete) = Len(output.incomplete[1])

\* a result with an incomplete entry among its violations has been received
C29_IncompleteEntryKept ==
  \E i \in Invocations :
    /\ engineReturned(i)
    /\ axeResults /= None
    /\ \E n \in 1..Len(axeResults[1].violations) : axeResults[1].violations[n].impact = None

\* the rule-engine step of invocation i ends
axeStepEnds(i) == pc[i] = "axe" /\ pc'[i] = "done"

\* C30 as stated: when loading the engine or the engine's run throws error
\* e, runAxeAnalysis rejects with that same error e, no fallback result is
\* produced, and loadAndAnalyze leaves axeResults null and analysisResults
\* as narration left it.
C30_FailurePropagatesUntouched ==
  [][\A i \in Invocations :
       axeStepEnds(i) /\ axeOutcome'.thrown /= None
         => /\ axeOutcome'.rejected = axeOutcome'.thrown
            /\ axeResults' = None
            /\ analysisResults' = analysisResults]_vars

\* C30, amended: an error thrown by the engine's run is the error
\* runAxeAnalysis rejects with; a failure to load the engine is replaced by
\* the error 'Could not load axe-core library'; in both cases no fallback
\* result is produced, axeResults stays null, analysisResults stays as
\* narration left it, and the panel shows the message of the rejection.
C30_RunErrorsPropagate ==
  [][\A i \in Invocations :
       axeStepEnds(i) /\ axeOutcome'.thrown /= None
         => /\ axeOutcome'.thrown[1] \in RunErrors
                 => axeOutcome'.rejected = axeOutcome'.thrown
            /\ axeOutcome'.thrown[1] \in ImportErrors
                 => /\ ~axe /\ ~axe'
                    /\ axeOutcome'.rejected =
                         Some([name |-> "Error", message |-> "Could not load axe-core library"])
            /\ issuesContent' = "Axe analysis failed: " \o axeOutcome'.rejected[1].message
            /\ axeResults = None
            /\ axeResults' = None
            /\ analysisResults' = analysisResults]_vars

\* both failures have happened: the load failed in one analysis, and in a
\* later one the run failed, after narration had left records
C30_Witness ==
  \E i \in Invocations :
    /\ pc[i] = "done"
    /\ axe
    /\ axeOutcome.thrown /= None
    /\ axeOutcome.thrown[1] \in RunErrors
    /\ analysisResults /= << >>
    /\ axeResults = None

\* the load has failed
C30_LoadFailed ==
  \E i \in Invocations :
    /\ pc[i] = "done"
    /\ axeOutcome.thrown /= None
    /\ axeOutcome.thrown[1] \in ImportErrors
    /\ issuesContent = "Axe analysis failed: Could not load axe-core library"

\* the categories in the order in which they are tried
Precedence == <<"landmark", "heading", "interactive", "form">>

\* the phrase, whatever its capitals, contains a role word of the category
containsWordOf(p, category) ==
  \E word \in roleWords(category) : includes(toLowerCase(p), word)

\* C39: getElementCategory classifies by case-insensitive substring
\* containment with a fixed precedence: the first of landmark, heading,
\* interactive, form one of whose patterns the phrase contains wins, and
\* content is the result only when the phrase contains no pattern.
C39_FirstCategoryWins ==
  gecPc = "returned"
    => LET category == gecResult[1].category
       IN  /\ \A k \in 1..Len(Precedence) :
                category = Precedence[k]
                  <=> /\ containsWordOf(gecArg, Precedence[k])
                      /\ \A j \in 1..(k - 1) : ~containsWordOf(gecArg, Precedence[j])
           /\ category = "content"
                <=> \A k \in 1..Len(Precedence) : ~containsWordOf(gecArg, Precedence[k])

\* a heading whose text holds 'Main' has been classified as a landmark
C39_Witness ==
  /\ gecPc = "returned"
  /\ gecArg = "heading, Main Menu, level 1"
  /\ containsWordOf(gecArg, "heading")
  /\ gecResult[1].category = "landmark"

(***************************************************************************)
(* Module loading.                                                         *)
(***************************************************************************)
\* invocation i's call of initVirtualScreenReader, and of loadAxe, completes
initCompletes(i) == pc[i] = "init" /\ pc'[i] /= "init"
axeImportFails(i) ==
  /\ axeStepEnds(i)
  /\ axeOutcome'.thrown /= None
  /\ axeOutcome'.thrown[1] \in ImportErrors

\* C33: module loading is memoized: once initVirtualScreenReader
\* (respectively loadAxe) has completed successfully, every later call
\* returns the cached handle without importing the module again, so it
\* cannot fail; a failed load is not cached.
C33_LoadingMemoized ==
  [][/\ virtual => virtual'
     /\ axe => axe'
     /\ \A i \in Invocations :
          /\ initCompletes(i) /\ virtual
               => pc'[i] = "start" /\ threw'[i] = threw[i]
          /\ initCompletes(i) /\ "initVirtualScreenReader" \in threw'[i]
               => ~virtual /\ ~virtual'
          /\ axeStepEnds(i) /\ axe => ~axeImportFails(i)
          /\ axeImportFails(i) => ~axe /\ ~axe']_vars

\* a later analysis has obtained the narrator while the rule engine, loaded
\* by an earlier one, is cached
C33_Witness ==
  \E i \in Invocations : pc[i] = "start" /\ virtual /\ axe

\* the narrator failed to load in an earlier analysis and is loaded now
C33_LoadedAfterFailure ==
  \E i, j \in Invocations :
    /\ "initVirtualScreenReader" \in threw[i]
    /\ pc[j] = "start"
    /\ virtual

(***************************************************************************)
(* The result set of an analysis.                                          *)
(***************************************************************************)
\* invocation i is narrating: between its start and the assignment of its result
narrating(i) == pc[i] \in {"init", "start", "read", "next", "stop", "returned", "raised"}

\* C32: analysisResults is never incrementally patched: each loadAndAnalyze
\* resets it to the empty sequence (and currentIndex to 0) before any
\* narration, it stays empty while records are streamed to the callback, and
\* it is only ever assigned a complete sequence returned by analyzeContainer
\* or analyzeContainerSimple; no record of a previous analysis survives into
\* the next one.
C32_NeverPatched ==
  /\ [](\A i \in Invocations :
          narrating(i) => analysisResults = << >> /\ currentIndex = 0)
  /\ [][/\ \A i \in Invocations :
            pc[i] = "idle" /\ pc'[i] = "init"
              => analysisResults' = << >> /\ currentIndex' = 0
        /\ analysisResults' /= analysisResults
             => \/ analysisResults' = << >>
                \/ \E i \in Invocations :
                     /\ resumes(i)
                     /\ analysisResults = << >>
                     /\ analysisResults' \in {results[i], analyzeContainerSimple(previewFrame)}]_vars

\* an analysis is streaming records while the result set is empty, after an
\* earlier analysis has left records and loaded the rule engine
C32_Witness ==
  \E i \in Invocations :
    /\ pc[i] = "next"
    /\ Len(callbacks[i]) > 0
    /\ analysisResults = << >>
    /\ axe

(***************************************************************************)
(* The user who pastes HTML of their own and waits for each analysis.      *)
(* One of the documents holds a text field whose id contains a double      *)
(* quote.  Every call the program awaits eventually returns or throws; the *)
(* user need not start another analysis.                                   *)
(***************************************************************************)
QuotedIdDocument == << Element("main"), [Element("input") EXCEPT !.id = "a\"b"] >>

PastedDocuments == Documents \cup {QuotedIdDocument}

NextPasted ==
  \/ \E i \in Invocations, html \in PastedDocuments : noneInFlight /\ loadAndAnalyze(i, html)
  \/ \E i \in Invocations : initVirtualScreenReader(i)
  \/ \E i \in Invocations : start(i)
  \/ \E i \in Invocations : lastSpokenPhrase(i) /\ shortDocument(i)'
  \/ \E i \in Invocations : next(i)
  \/ \E i \in Invocations : stop(i)
  \/ \E i \in Invocations : afterAnalyzeContainer(i)
  \/ \E i \in Invocations : runAxeAnalysis(i)
  \/ \E i \in Invocations : release(i)

programSteps ==
  \E i \in Invocations :
    \/ initVirtualScreenReader(i)
    \/ start(i)
    \/ lastSpokenPhrase(i) /\ shortDocument(i)'
    \/ next(i)
    \/ stop(i)
    \/ afterAnalyzeContainer(i)
    \/ runAxeAnalysis(i)
    \/ release(i)

SpecPasted == Init /\ [][NextPasted]_vars /\ WF_vars(programSteps)

\* C31: no automatic retry: within one loadAndAnalyze invocation the narrator
\* is started at most once, analyzeContainerSimple is run at most once and the
\* rule engine is run at most once, whatever failures occur; a further
\* attempt happens only through a new loadAndAnalyze invocation.
C31_NoAutomaticRetry ==
  /\ [](\A i \in Invocations : calls[i].start <= 1 /\ simpleRuns[i] <= 1)
  /\ [][\A i \in Invocations :
          /\ pc'[i] = "start" => pc[i] \in {"start", "init"}
          /\ pc'[i] = "axe" => pc[i] \in {"axe", "returned", "raised"}
          /\ pc[i] \in {"done", "rejected"} => pc'[i] \in {pc[i], "idle"}]_vars

\* the direct scan ran twice in one invocation
C31_RanTwice == \E i \in Invocations : simpleRuns[i] = 2

\* C37: within one loadAndAnalyze invocation the rule engine is run only after
\* narration has fully finished (narrator stopped, fallback applied), and at
\* the moment it runs the container holds only the loaded HTML: no highlight
\* overlay has been added to it, on the traversal path or the fallback path.
C37_EngineSeesLoadedHtml ==
  /\ [](\A i \in Invocations :
          pc[i] = "axe" => /\ highlight = None
                           /\ calls[i] = NoCalls
                           /\ results[i] = << >>)
  /\ [][\A i \in Invocations :
          axeStepEnds(i) => pc[i] = "axe" /\ highlight = None]_vars

\* the engine is about to run on a frame that holds an overlay
C37_OverlayBeforeEngine ==
  \E i \in Invocations : pc[i] = "axe" /\ highlight /= None /\ simpleRuns[i] = 1

\* C38: every loadAndAnalyze invocation disables the AI-enhance button at its
\* start and, provided each external call eventually returns or throws,
\* eventually enables it again, whatever the outcomes of the narrator and of
\* the rule engine; the rule engine is still run after a narration failure.
C38_ButtonEnabledAgain ==
  /\ [](\A i \in Invocations : pc[i] = "init" => enhanceAiBtnDisabled)
  /\ \A i \in Invocations :
       (pc[i] = "init") ~> (pc[i] = "done" /\ ~enhanceAiBtnDisabled
                                           /\ axeOutcome /= NoOutcome)

\* an invocation has ended and the button is still disabled
C38_LeftDisabled ==
  \E i \in Invocations : pc[i] = "rejected" /\ enhanceAiBtnDisabled

(***************************************************************************)
(* app.js: navigation and speech.  The handlers run to completion; what    *)
(* they read and write of the page is gathered in a record                 *)
(*   [currentIndex, highlight, ttsPlaying, utterance, cancelled, timer]    *)
(* and each function of the source is an operator from the record before   *)
(* the call to the record after it.  analysisResults and previewFrame are  *)
(* read as they are when the handler starts: no function below assigns     *)
(* them.  speechSynthesis.speaking is true while an utterance is being     *)
(* spoken; cancel() ends it, and the utterance's end or error event is     *)
(* delivered to its handler later.                                         *)
(***************************************************************************)
page == [currentIndex |-> currentIndex, highlight |-> highlight,
         ttsPlaying |-> ttsPlaying, utterance |-> utterance,
         cancelled |-> cancelled, timer |-> timer]

\* the page after the handler: every field of the record is assigned
becomes(t) ==
  /\ currentIndex' = t.currentIndex
  /\ highlight' = t.highlight
  /\ ttsPlaying' = t.ttsPlaying
  /\ utterance' = t.utterance
  /\ cancelled' = t.cancelled
  /\ timer' = t.timer

\* analysisResults[currentIndex] is undefined: reading its element throws
outOfRange(t) == Len(analysisResults) > 0 /\ t.currentIndex >= Len(analysisResults)

\* updateCurrentElement()
updateCurrentElement(t) ==
  IF Len(analysisResults) = 0 \/ outOfRange(t) THEN t
  ELSE [t EXCEPT !.highlight = highlightElementInPreview(
                                 analysisResults[t.currentIndex + 1], previewFrame, @)]

\* window.speechSynthesis.cancel()
cancel(t) ==
  IF t.utterance = None THEN t
  ELSE [t EXCEPT !.utterance = None,
                 !.cancelled = IF t.utterance[1].continuous THEN @ + 1 ELSE @]

\* stopSpeech()
stopSpeech(t) == cancel(t)

\* stopNarration()
stopNarration(t) == stopSpeech([t EXCEPT !.ttsPlaying = FALSE])

\* speakSingleAnnouncement()
speakSingleAnnouncement(t) ==
  IF t.currentIndex < 0 \/ t.currentIndex >= Len(analysisResults) THEN t
  ELSE IF analysisResults[t.currentIndex + 1].announcement = "" THEN t
  ELSE [cancel(t) EXCEPT !.utterance = Some([index |-> t.currentIndex,
                                            continuous |-> FALSE])]

\* moveToNextAndSpeak(), after its test of ttsPlaying
moveToNext(t) ==
  IF t.currentIndex < Len(analysisResults) - 1
  THEN [updateCurrentElement([t EXCEPT !.currentIndex = @ + 1]) EXCEPT !.timer = @ + 1]
  ELSE stopNarration(t)

\* Faulty variant: the handler does not test whether narration is still on.
moveToNextAndSpeakUnchecked(t) == moveToNext(t)

\* moveToNextAndSpeak()
moveToNextAndSpeak(t) == IF ~t.ttsPlaying THEN t ELSE moveToNext(t)

\* speakCurrentAndContinue()
speakCurrentAndContinue(t) ==
  IF ~t.ttsPlaying \/ t.currentIndex >= Len(analysisResults) THEN stopNarration(t)
  ELSE IF analysisResults[t.currentIndex + 1].announcement = "" THEN moveToNextAndSpeak(t)
  ELSE [cancel(t) EXCEPT !.utterance = Some([index |-> t.currentIndex,
                                            continuous |-> TRUE])]

\* startNarration()
startNarration(t) ==
  IF Len(analysisResults) = 0 THEN t
  ELSE speakCurrentAndContinue([t EXCEPT !.ttsPlaying = TRUE])

\* the click handler of the TTS button
ttsToggleBtnClicked(t) ==
  IF Len(analysisResults) = 0 THEN t
  ELSE IF ttsMode = "single" THEN speakSingleAnnouncement(t)
  ELSE IF t.ttsPlaying THEN stopNarration(t)
  ELSE startNarration(t)

\* the click handlers of the Prev and Next buttons
prevBtnClicked(t) ==
  IF t.currentIndex > 0 THEN updateCurrentElement([t EXCEPT !.currentIndex = @ - 1]) ELSE t

nextBtnClicked(t) ==
  IF t.currentIndex < Len(analysisResults) - 1
  THEN updateCurrentElement([t EXCEPT !.currentIndex = @ + 1])
  ELSE t

\* the keydown handler, the event not coming from a form field and the modal
\* closed; Space and Enter with the focus on the body or on the TTS button
NavigationKeys == {"ArrowRight", "ArrowDown", "ArrowLeft", "ArrowUp", "Home", "End"}
Keys == NavigationKeys \cup {" ", "Enter", "Escape"}

keydownHandler(key, t) ==
  CASE key \in {"ArrowRight", "ArrowDown"} ->
         IF Len(analysisResults) > 0 /\ t.currentIndex < Len(analysisResults) - 1
         THEN updateCurrentElement([t EXCEPT !.currentIndex = @ + 1])
         ELSE t
    [] key \in {"ArrowLeft", "ArrowUp"} ->
         IF Len(analysisResults) > 0 /\ t.currentIndex > 0
         THEN updateCurrentElement([t EXCEPT !.currentIndex = @ - 1])
         ELSE t
    [] key = "Home" ->
         IF Len(analysisResults) > 0
         THEN updateCurrentElement([t EXCEPT !.currentIndex = 0])
         ELSE t
    [] key = "End" ->
         IF Len(analysisResults) > 0
         THEN updateCurrentElement([t EXCEPT !.currentIndex = Len(analysisResults) - 1])
         ELSE t
    [] key \in {" ", "Enter"} -> ttsToggleBtnClicked(t)
    [] key = "Escape" ->
         IF t.ttsPlaying \/ t.utterance /= None THEN cancel(stopNarration(t)) ELSE t

\* the click handler of a list item made for a record
itemClicked(item, t) == updateCurrentElement([t EXCEPT !.currentIndex = item.index])

\* the frames every user action and speech event leaves alone
pageFrame ==
  /\ UNCHANGED <<virtual, pc, loopVars, calls, threw, enhanceAiBtnDisabled, simpleRuns>>
  /\ UNCHANGED <<detectorVars, classifierVars, axe, axeOutcome>>

\* a handler that changes neither the documents nor the list nor the mode
handles(t) ==
  /\ becomes(t)
  /\ UNCHANGED <<analysisResults, axeResults, previewFrame, issuesContent,
                 announcementList, ttsMode>>
  /\ pageFrame

(***************************************************************************)
(* The user's actions.                                                     *)
(***************************************************************************)
prevBtn == handles(prevBtnClicked(page))

nextBtn == handles(nextBtnClicked(page))

keydown(key) == handles(keydownHandler(key, page))

listItem(k) ==
  /\ k \in DOMAIN announcementList
  /\ announcementList[k].kind = "record"
  /\ handles(itemClicked(announcementList[k], page))

ttsToggleBtn == handles(ttsToggleBtnClicked(page))

\* the change handler of the mode selector
ttsModeSelect(mode) ==
  /\ ttsMode' = mode
  /\ becomes(IF ttsPlaying THEN stopNarration(page) ELSE page)
  /\ UNCHANGED <<analysisResults, axeResults, previewFrame, issuesContent, announcementList>>
  /\ pageFrame

\* the placeholder paragraph of the start screen
PlaceholderText == << [Element("p") EXCEPT !.text = "Select a sample or paste HTML to begin"] >>

showStartScreen ==
  /\ analysisResults' = << >>
  /\ axeResults' = None
  /\ previewFrame' = PlaceholderText
  /\ announcementList' = <<PlaceholderItem>>
  /\ issuesContent' = "Issues will appear after analysis..."
  /\ becomes(stopNarration([page EXCEPT !.currentIndex = 0, !.highlight = None]))
  /\ UNCHANGED ttsMode
  /\ pageFrame

(***************************************************************************)
(* The events of speech: the utterance being spoken ends or fails, the     *)
(* event of a cancelled utterance arrives, a timer fires.  The handlers of *)
(* an utterance of speakSingleAnnouncement change nothing of the state     *)
(* above.                                                                  *)
(***************************************************************************)
utteranceEnds ==
  /\ utterance /= None
  /\ LET t == [page EXCEPT !.utterance = None]
     IN  handles(IF utterance[1].continuous THEN moveToNextAndSpeak(t) ELSE t)

cancelledUtteranceEnds ==
  /\ cancelled > 0
  /\ handles(moveToNextAndSpeak([page EXCEPT !.cancelled = @ - 1]))

timerFires ==
  /\ timer > 0
  /\ LET t == [page EXCEPT !.timer = @ - 1]
     IN  handles(IF t.ttsPlaying THEN speakCurrentAndContinue(t) ELSE t)

(***************************************************************************)
(* The user who listens: a document has been analysed (the narrator        *)
(* yielded no record, the direct scan supplied them, the rule engine       *)
(* returned a well-formed result), and the user navigates and has the      *)
(* announcements spoken.  While continuous narration is on the user at     *)
(* most stops it.  An utterance being spoken eventually ends or fails, the *)
(* event of a cancelled utterance eventually arrives and a pending timer   *)
(* eventually fires.                                                       *)
(***************************************************************************)
MaxPending == 3

\* the user starts to speak only when few handlers are pending
fewPending == cancelled + timer < MaxPending

\* the state loadAndAnalyze(html) leaves when the narrator yields no record
\* and the rule engine returns `output`
analysed(html, output) ==
  LET records == analyzeContainerSimple(html)
  IN  /\ virtual = TRUE
      /\ analysisResults = records
      /\ currentIndex = 0
      /\ axeResults = Some(formatResults(output))
      /\ issuesContent = renderAxeResults(formatResults(output))
      /\ axe = TRUE
      /\ axeOutcome = [returned |-> Some(output), thrown |-> None, rejected |-> None]
      /\ previewFrame = html
      /\ enhanceAiBtnDisabled = FALSE
      /\ pc = [i \in Invocations |-> "idle"]
      /\ results = [i \in Invocations |-> << >>]
      /\ seen = [i \in Invocations |-> {}]
      /\ safetyCounter = [i \in Invocations |-> 0]
      /\ phrase = [i \in Invocations |-> None]
      /\ calls = [i \in Invocations |-> NoCalls]
      /\ callbacks = [i \in Invocations |-> << >>]
      /\ threw = [i \in Invocations |-> {}]
      /\ exit = [i \in Invocations |-> "none"]
      /\ announcementList = updateAnnouncementList(records)
      /\ highlight = IF Len(records) > 0
                     THEN highlightElementInPreview(records[1], html, None)
                     ELSE None
      /\ simpleRuns = [i \in Invocations |-> 0]

InitListening ==
  /\ \E html \in Documents, output \in AxeOutputs :
       ~readsMissingList(output) /\ analysed(html, output)
  /\ ttsMode = "single"
  /\ ttsPlaying = FALSE
  /\ utterance = None
  /\ cancelled = 0
  /\ timer = 0
  /\ detectorIdle
  /\ classifierIdle

NextListening ==
  \/ timerFires
  \/ cancelledUtteranceEnds
  \/ utteranceEnds
  \/ fewPending /\ ttsToggleBtn
  \/ \E k \in DOMAIN announcementList : ~ttsPlaying /\ listItem(k)
  \/ ~ttsPlaying /\ prevBtn
  \/ ~ttsPlaying /\ nextBtn
  \/ \E key \in NavigationKeys : ~ttsPlaying /\ keydown(key)
  \/ \E key \in Keys \ NavigationKeys : fewPending /\ keydown(key)
  \/ \E mode \in {"single", "continuous"} : ttsModeSelect(mode)
  \/ showStartScreen

SpecListening ==
  /\ InitListening
  /\ [][NextListening]_vars
  /\ WF_vars(utteranceEnds)
  /\ WF_vars(cancelledUtteranceEnds)
  /\ WF_vars(timerFires)

\* the state the user who listens starts from is one the analysis leaves
C40_Analysed ==
  \E html \in Documents, output \in AxeOutputs :
    /\ ~readsMissingList(output) /\ analysed(html, output)
    /\ Len(analysisResults) > 1

\* an end or error event of an utterance of the narration is handled
utteranceFinished ==
  \/ /\ utterance /= None /\ utterance[1].continuous
     /\ utterance' = None /\ cancelled' = cancelled
  \/ cancelled' = cancelled - 1

\* a handler of the narration runs: an utterance event or a timer
handlerRuns == utteranceFinished \/ timer' = timer - 1

\* C40: continuous narration terminates: once startNarration has run with a
\* non-empty analysisResults and the user does nothing more, currentIndex
\* advances by exactly one per finished utterance up to the last record, and
\* narration then stops with ttsPlaying false; after stopNarration no pending
\* utterance handler or timer advances currentIndex or speaks again until
\* narration is started anew.
C40_NarrationTerminates ==
  /\ ttsPlaying ~> ~ttsPlaying
  /\ [][/\ ttsPlaying /\ currentIndex' /= currentIndex /\ analysisResults' = analysisResults
            => /\ utteranceFinished
               /\ currentIndex' = currentIndex + 1
               /\ currentIndex' < Len(analysisResults)
               /\ ttsPlaying'
        /\ ttsPlaying /\ utteranceFinished /\ currentIndex' = currentIndex
            => /\ currentIndex = Len(analysisResults) - 1
               /\ ~ttsPlaying' /\ utterance' = None
        /\ ~ttsPlaying /\ handlerRuns
            => /\ ~ttsPlaying'
               /\ currentIndex' = currentIndex
               /\ utterance' = None \/ utterance' = utterance
               /\ timer' <= timer]_vars

\* narration has just moved to the last of several records
C40_Witness ==
  /\ ttsPlaying
  /\ timer = 1
  /\ Len(analysisResults) > 1
  /\ currentIndex = Len(analysisResults) - 1

\* narration was stopped while the handler of an utterance and a timer were pending
C40_StoppedWithPending == ~ttsPlaying /\ cancelled > 0 /\ timer > 0 /\ currentIndex > 0

\* a step of Prev, Next, an arrow key, Home or End that changes the current element
navigates ==
  /\ currentIndex' /= currentIndex
  /\ analysisResults' = analysisResults
  /\ Len(analysisResults) > 0
  /\ ~ttsPlaying /\ ~ttsPlaying'

\* C34: auto-play: in single TTS mode every navigation that changes the
\* current element (Prev/Next buttons, arrow/Home/End keys) causes the
\* announcement of the newly current element to be spoken; in continuous mode
\* navigation does not trigger speech by itself.
C34_AutoPlay ==
  [][navigates =>
       IF ttsMode = "single"
       THEN utterance' = Some([index |-> currentIndex', continuous |-> FALSE])
       ELSE utterance' = utterance]_vars

\* the navigation half that holds: navigation leaves speech as it is
C34_NavigationSilent == [][navigates => utterance' = utterance]_vars

\* the user has navigated in single mode and nothing is being spoken
C34_Navigated ==
  /\ ttsMode = "single"
  /\ currentIndex > 0
  /\ currentIndex < Len(analysisResults)
  /\ utterance = None

(***************************************************************************)
(* The user who clicks: documents are loaded while an earlier analysis is  *)
(* in flight, and between the steps of the analyses the user navigates,    *)
(* clicks list items and returns to the start screen.  The documents are   *)
(* short and the progress callback of loadAndAnalyze does not throw.       *)
(***************************************************************************)
NextClicking ==
  \/ \E i \in Invocations, html \in Documents : loadAndAnalyze(i, html)
  \/ \E i \in Invocations : initVirtualScreenReader(i)
  \/ \E i \in Invocations : start(i)
  \/ \E i \in Invocations :
       lastSpokenPhrase(i) /\ shortDocument(i)' /\ "onProgress" \notin threw'[i]
  \/ \E i \in Invocations : next(i)
  \/ \E i \in Invocations : stop(i)
  \/ \E i \in Invocations : afterAnalyzeContainer(i)
  \/ \E i \in Invocations : runAxeAnalysis(i)
  \/ \E i \in Invocations : release(i)
  \/ \E k \in DOMAIN announcementList : listItem(k)
  \/ prevBtn
  \/ nextBtn
  \/ \E key \in NavigationKeys : keydown(key)
  \/ showStartScreen

SpecClicking == Init /\ [][NextClicking]_vars

\* C35: whenever analysisResults is non-empty, 0 <= currentIndex <
\* analysisResults.length, under any sequence of Prev/Next clicks, arrow, Home
\* and End keys, clicks on list items, showStartScreen and (possibly
\* overlapping) loadAndAnalyze invocations; Prev at the first element and Next
\* at the last leave currentIndex unchanged.
C35_IndexInRange ==
  /\ Len(analysisResults) > 0 => 0 <= currentIndex /\ currentIndex < Len(analysisResults)
  /\ currentIndex = 0 => prevBtnClicked(page).currentIndex = 0
  /\ currentIndex = Len(analysisResults) - 1
       => nextBtnClicked(page).currentIndex = currentIndex

\* the half that holds: the buttons and the keys keep an index that is in range
C35_ButtonsKeepRange ==
  Len(analysisResults) > 0 /\ currentIndex < Len(analysisResults)
    => \A t \in {prevBtnClicked(page), nextBtnClicked(page)}
                 \cup {keydownHandler(key, page) : key \in NavigationKeys} :
         0 <= t.currentIndex /\ t.currentIndex < Len(analysisResults)

\* two analyses that overlapped and met no failure have left more record items
\* in the list than there are records
C35_StaleItems ==
  /\ Len(analysisResults) > 0
  /\ \A i \in Invocations : threw[i] = {}
  /\ \E k \in DOMAIN announcementList :
       /\ announcementList[k].kind = "record"
       /\ announcementList[k].index >= Len(analysisResults)

\* a click on such an item has moved currentIndex out of range
C35_ClickedStaleItem == C35_StaleItems /\ currentIndex >= Len(analysisResults)

\* C36: whenever no analysis is in flight and analysisResults is non-empty,
\* the announcement list shows exactly one item per record of
\* analysisResults, in index order, the item at position i bound to index i;
\* after a streamed traversal, after a fallback rebuild and after two
\* loadAndAnalyze invocations that overlapped.
C36_ListMatchesRecords ==
  noneInFlight /\ Len(analysisResults) > 0
    => announcementList = [n \in 1..Len(analysisResults) |-> RecordItem(n - 1)]

\* the analyses are over, and the list shows the items of one of them while
\* the records are those of another
C36_AfterOverlap ==
  /\ noneInFlight
  /\ previewFrame /= PlaceholderText
  /\ Len(analysisResults) = 1
  /\ Len(announcementList) > 1
  /\ \A k \in DOMAIN announcementList : announcementList[k].kind = "record"

=============================================================================
